---- MODULE Spec2Model ----
(***************************************************************************)
(* A model of rst.py, the docutils driver of the NLTK book: the numbering  *)
(* visitor, the local and cross-file reference passes, the transform       *)
(* schedule and the doctest colorizer.                                     *)
(*                                                                         *)
(* Text is modelled as a sequence of one-character strings, so that the    *)
(* regular expressions and the formatting of the source are computed and   *)
(* not assumed.                                                            *)
(***************************************************************************)
EXTENDS Integers, Sequences, FiniteSets, TLC

VARIABLES
    \* ---- process-wide settings (module globals of rst.py)
    OUTPUT_FORMAT,            \* "html" | "latex" | "ref"
    EXTERN_REFERENCE_FILES,   \* sequence of .ref base names
    shelf,                    \* the .ref files on disk: base name -> record
    \* ---- NumberingVisitor
    section_num, example_num, figure_num, table_num,
    set_section_context, section_context, reference_labels,
    doc,                      \* the nodes visited so far, in document order
    path,                     \* the elements entered and not yet left
    raised,                   \* the exception that ended the traversal, or None
    \* ---- the reference passes (one parent element and its children)
    children,                 \* the child list of the parent of the references
    in_contents,              \* the parent sits in the table-of-contents topic
    passes,                   \* the passes applied so far
    \* ---- colorize_doctestblock
    s, inline,                \* the arguments: the text, and the mode
    lines, lineno,            \* the lines of the block, and the next one to read
    pysrc, pyout, other, result,
    emitted,                  \* the calls of markup_func so far: tag and text
    pc,                       \* "idle" | "loop" | "done"
    \* ---- the transform schedule
    transforms, applied,
    \* ---- main() and the Citations transform
    options_bibliography,     \* options.bibliography, as given on the command line
    main_LOCAL_BIBLIOGRAPHY,  \* the name LOCAL_BIBLIOGRAPHY inside main()
    LOCAL_BIBLIOGRAPHY,       \* the module global
    bibliography,             \* read_bibinfo(BIBTEX_FILE): key -> '[authors, year]'
    citation_refs,            \* document.citation_refs: refname -> nodes (positions in cite_tree)
    cite_tree,                \* the citation references of the tree, and what replaces them
    cite_pc,                  \* "idle" | "start" | "main" | "done"
    \* ---- FindTermVisitor
    terms,                    \* key -> entry
    idxterms,                 \* the idxterm nodes visited so far, in document order
    idx_pc,                   \* "idle" | "walking" | "AttributeError" | "IOError" | "done"
    index                     \* the index built by ConstructIndex: headings with their entries

vars == <<OUTPUT_FORMAT, EXTERN_REFERENCE_FILES, shelf,
          section_num, example_num, figure_num, table_num,
          set_section_context, section_context, reference_labels, doc, path, raised,
          children, in_contents, passes,
          s, inline, lines, lineno, pysrc, pyout, other, result, emitted, pc,
          transforms, applied,
          options_bibliography, main_LOCAL_BIBLIOGRAPHY, LOCAL_BIBLIOGRAPHY,
          bibliography, citation_refs, cite_tree, cite_pc,
          terms, idxterms, idx_pc, index>>

numVars == <<section_num, example_num, figure_num, table_num,
             set_section_context, section_context, doc, path, raised>>
refVars == <<children, in_contents, passes>>
colVars == <<s, inline, lines, lineno, pysrc, pyout, other, result, emitted, pc>>
pipeVars == <<transforms, applied>>
bibVars == <<options_bibliography, main_LOCAL_BIBLIOGRAPHY, LOCAL_BIBLIOGRAPHY,
             bibliography, citation_refs, cite_tree, cite_pc>>
idxVars == <<terms, idxterms, idx_pc, index>>
envVars == <<OUTPUT_FORMAT, EXTERN_REFERENCE_FILES, shelf>>

\* What the steps of one component leave alone.
NumberingOnly == UNCHANGED <<envVars, refVars, colVars, pipeVars, bibVars, idxVars>>
ReferencesOnly == UNCHANGED <<numVars, colVars, pipeVars, bibVars, idxVars>>

(***************************************************************************)
(* Text                                                                    *)
(***************************************************************************)
None == "None"
Nil == <<"None">>      \* None where a text is expected (no text is equal to it)

LETTERS == <<"a","b","c","d","e","f","g","h","i","j","k","l","m","n","o","p","q","r","s","t","u","v","w","x","y","z">>
UPPERS == <<"A","B","C","D","E","F","G","H","I","J","K","L","M","N","O","P","Q","R","S","T","U","V","W","X","Y","Z">>
DIGITS == <<"0","1","2","3","4","5","6","7","8","9">>

Range(q) == {q[i] : i \in DOMAIN q}
IndexIn(q, c) == CHOOSE i \in DOMAIN q : q[i] = c

IsDigit(c) == c \in Range(DIGITS)
IsSpace(c) == c \in {" ", "\n", "\t"}
IsWordChar(c) == c \in Range(LETTERS) \cup Range(UPPERS) \cup Range(DIGITS) \cup {"_"}

\* str.upper() and str.lower(), character by character
UpperChar(c) == IF c \in Range(LETTERS) THEN UPPERS[IndexIn(LETTERS, c)] ELSE c
LowerChar(c) == IF c \in Range(UPPERS) THEN LETTERS[IndexIn(UPPERS, c)] ELSE c
Upper(t) == [i \in DOMAIN t |-> UpperChar(t[i])]
Lower(t) == [i \in DOMAIN t |-> LowerChar(t[i])]

\* str(n) and int(t) for n >= 0
RECURSIVE Str(_)
Str(n) == IF n < 10 THEN <<DIGITS[n + 1]>> ELSE Str(n \div 10) \o <<DIGITS[(n % 10) + 1]>>

RECURSIVE ParseInt(_)
ParseInt(t) ==
    IF Len(t) = 0 THEN 0
    ELSE 10 * ParseInt(SubSeq(t, 1, Len(t) - 1)) + (IndexIn(DIGITS, t[Len(t)]) - 1)

\* sep.join(parts)
RECURSIVE Join(_, _)
Join(parts, sep) ==
    IF Len(parts) = 0 THEN <<>>
    ELSE IF Len(parts) = 1 THEN parts[1]
    ELSE parts[1] \o sep \o Join(Tail(parts), sep)

\* t.split(c) for a one-character separator c
RECURSIVE SplitOn(_, _)
SplitOn(t, c) ==
    IF \A i \in DOMAIN t : t[i] # c THEN <<t>>
    ELSE LET k == CHOOSE i \in DOMAIN t : t[i] = c /\ \A j \in 1..(i - 1) : t[j] # c
         IN  <<SubSeq(t, 1, k - 1)>> \o SplitOn(SubSeq(t, k + 1, Len(t)), c)

\* t.rstrip(), t.lstrip(), t.strip()
RECURSIVE RStrip(_)
RStrip(t) == IF Len(t) > 0 /\ IsSpace(t[Len(t)]) THEN RStrip(SubSeq(t, 1, Len(t) - 1)) ELSE t
RECURSIVE LStrip(_)
LStrip(t) == IF Len(t) > 0 /\ IsSpace(t[1]) THEN LStrip(Tail(t)) ELSE t
Strip(t) == LStrip(RStrip(t))

\* t[p:p+len(w)] == w
StartsWithAt(t, p, w) ==
    /\ p + Len(w) - 1 <= Len(t)
    /\ \A i \in 1..Len(w) : t[p + i - 1] = w[i]

\* seq[i] with Python's index rule (0-based; a negative index counts from
\* the end).  The index is in range for every input the model draws.
PyIndex(q, i) == IF i < 0 THEN q[Len(q) + i + 1] ELSE q[i + 1]

(***************************************************************************)
(* Bounds of the model                                                     *)
(***************************************************************************)
MaxNodes == 4       \* sections, figures and tables visited by one run of the numbering visitor
MaxExamples == 5    \* example nodes visited by one run of the numbering visitor
MaxDepth == 2       \* nesting depth of the sections drawn
MaxChildren == 2    \* children of the element that holds the references
MaxPasses == 2      \* reference passes applied to one tree

(***************************************************************************)
(* NumberingVisitor                                                        *)
(***************************************************************************)
ROMAN10 == << <<"i">>, <<"i","i">>, <<"i","i","i">>, <<"i","v">>, <<"v">>, <<"v","i">>,
              <<"v","i","i">>, <<"v","i","i","i">>, <<"i","x">>, <<"x">> >>
ROMAN == ROMAN10 \o [i \in 1..10 |-> <<"x">> \o ROMAN10[i]]

max_section_depth == 3
no_section_numbers_in_preface == TRUE
TOP_SECTION == "chapter"

Contexts == {"body", "preface", "appendix"}

\* The titles drawn: no number, a one-piece number, a two-piece number.
TitlePool == { <<"A","i","m">>,
               <<"5"," ","A","i","m">>,
               <<"5",".","2"," ","A","i","m">> }

\* What precedes a figure, table or example in its parent: no target
\* ("none"), a target carrying refid, a target carrying ids, a target
\* carrying neither ("bare").
PrevKinds == {"none", "refid", "ids", "bare"}
FigurePool == { [prev |-> "refid", caption |-> TRUE] }
TablePool == { [prev |-> "none", caption |-> FALSE] }

\* The identifier docutils gives the k-th node of the document (unique).
NodeId(k) == <<"n">> \o Str(k)

\* The elements of doc entered and not yet left, by kind.
OpenOf(kind) == {i \in DOMAIN path : doc[path[i]].kind = kind}
Parent == IF Len(path) = 0 THEN 0 ELSE path[Len(path)]

\* re.match(r'(\d+(.\d+)*)\.?\s+', t): group(1) is t[1..g], the match ends
\* at e.  t[1..p] is in \d+(.\d+)* when it starts and ends with a digit, has
\* no two adjacent non-digits and no newline; the greedy match takes the
\* longest such prefix that \.?\s+ can follow.
NumPrefix(t, p) ==
    /\ p \in DOMAIN t /\ IsDigit(t[1]) /\ IsDigit(t[p])
    /\ \A i \in 1..p : t[i] # "\n"
    /\ \A i \in 1..(p - 1) : IsDigit(t[i]) \/ IsDigit(t[i + 1])
RECURSIVE SpacesEnd(_, _)
SpacesEnd(t, q) == IF q <= Len(t) /\ IsSpace(t[q]) THEN SpacesEnd(t, q + 1) ELSE q - 1
TailAt(t, p) ==
    LET q == IF p + 1 <= Len(t) /\ t[p + 1] = "." /\ p + 2 <= Len(t) /\ IsSpace(t[p + 2])
             THEN p + 2 ELSE p + 1
    IN  IF q <= Len(t) /\ IsSpace(t[q]) THEN SpacesEnd(t, q) ELSE 0
TitleMatch(t) ==
    LET ok == {p \in DOMAIN t : NumPrefix(t, p) /\ TailAt(t, p) > 0}
    IN  IF ok = {} THEN [matched |-> FALSE, g |-> 0, e |-> 0]
        ELSE LET p == CHOOSE x \in ok : \A y \in ok : y <= x
             IN  [matched |-> TRUE, g |-> p, e |-> TailAt(t, p)]

\* [int(n) for n in m.group(1).split('.')]
Pieces_Reversed(t, g) == LET parts == SplitOn(SubSeq(t, 1, g), ".")
                         IN  [i \in DOMAIN parts |-> ParseInt(parts[Len(parts) + 1 - i])]
Pieces(t, g) == LET parts == SplitOn(SubSeq(t, 1, g), ".")
                IN  [i \in DOMAIN parts |-> ParseInt(parts[i])]

\* format_section_num(depth); depth 0 stands for depth=None
format_section_num(sn, ctx, depth) ==
    LET strs == [i \in DOMAIN sn |-> Str(sn[i])]
        first == CASE ctx = "body" -> Str(sn[1])
                   [] ctx = "preface" -> Upper(PyIndex(ROMAN, sn[1] - 1))
                   [] ctx = "appendix" -> Upper(<<PyIndex(LETTERS, sn[1] - 1)>>)
        pieces == [strs EXCEPT ![1] = first]
    IN  IF depth = 0 THEN Join(pieces, <<".">>)
        ELSE Join(SubSeq(pieces, 1, IF depth < Len(pieces) THEN depth ELSE Len(pieces)), <<".">>)

\* format_example_num()
RECURSIVE DottedTail(_)
format_example_num_OffByOne(en) ==
    <<"(">> \o Str(en[1])
            \o (IF Len(en) > 1 THEN <<PyIndex(LETTERS, en[2])>> ELSE <<>>)
            \o (IF Len(en) > 2 THEN <<".">> \o PyIndex(ROMAN, en[3] - 1) ELSE <<>>)
            \o <<")">>
DottedTail(ns) == IF Len(ns) = 0 THEN <<>> ELSE <<".">> \o Str(ns[1]) \o DottedTail(Tail(ns))
format_example_num(en) ==
    LET d0 == Str(en[1])
        d1 == IF Len(en) > 1 THEN <<PyIndex(LETTERS, en[2] - 1)>> ELSE <<>>
        d2 == IF Len(en) > 2 THEN <<".">> \o PyIndex(ROMAN, en[3] - 1) ELSE <<>>
        d3 == IF Len(en) > 3 THEN DottedTail(SubSeq(en, 4, Len(en))) ELSE <<>>
    IN  <<"(">> \o d0 \o d1 \o d2 \o d3 \o <<")">>

\* A subscription q[i] of Python raises IndexError unless -len(q) <= i < len(q):
\* the subscriptions of ROMAN and LETTERS made by the two formatting methods.
InRange(q, i) == -Len(q) <= i /\ i < Len(q)
format_section_num_raises(sn, ctx) ==
    \/ ctx = "preface" /\ ~InRange(ROMAN, sn[1] - 1)
    \/ ctx = "appendix" /\ ~InRange(LETTERS, sn[1] - 1)
format_example_num_raises(en) ==
    \/ Len(en) > 1 /\ ~InRange(LETTERS, en[2] - 1)
    \/ Len(en) > 2 /\ ~InRange(ROMAN, en[3] - 1)

\* get_ids(node): the identifiers taken from the target that precedes the
\* node, and that target as get_ids leaves it.
get_ids(prev, id) ==
    CASE prev = "refid" -> <<id>>
      [] prev = "ids" -> <<id>>
      [] OTHER -> <<>>
TargetNode(prev, id) ==
    IF prev = "none" THEN <<>>
    ELSE << [kind |-> "target", parent |-> Parent, removed |-> FALSE,
             ids |-> IF prev = "bare" THEN <<>> ELSE <<id>>] >>

\* reference_labels[node_id] = label, for node_id in ids
SetLabels(labels, ids, label) ==
    [x \in DOMAIN labels \cup Range(ids) |-> IF x \in Range(ids) THEN label ELSE labels[x]]

\* label_node(node, label): the caption the node ends with
S_Figure == <<"F","i","g","u","r","e"," ">>
S_Table == <<"T","a","b","l","e"," ">>
label_node(hasCaption, label, fmt) ==
    IF hasCaption
    THEN [old |-> TRUE, text |-> IF fmt = "html" THEN label \o <<":"," ">> ELSE <<>>]
    ELSE [old |-> FALSE, text |-> IF fmt = "html" THEN label ELSE <<>>]

\* prepend_raw_latex(node, raw_latex)
RawNode(cmd, counter, value, style) ==
    [kind |-> "raw", parent |-> Parent, removed |-> FALSE, format |-> "latex",
     cmd |-> cmd, counter |-> counter, value |-> value, style |-> style]

\* The sections, figures and tables visited so far are fewer than the bound.
Room == Cardinality({i \in DOMAIN doc : doc[i].kind \in {"section", "figure", "table"}}) < MaxNodes

\* '%s.%s' % (self.format_section_num(1), n): the label of a figure or table
FloatLabelWholeNumber(sn, ctx, n) == format_section_num(sn, ctx, 0) \o <<".">> \o Str(n)
FloatLabel(sn, ctx, n) == format_section_num(sn, ctx, 1) \o <<".">> \o Str(n)

\* self.section_num[-1] += 1
IncrementFirst(sn) == [sn EXCEPT ![1] = @ + 1]
IncrementLast(sn) == [sn EXCEPT ![Len(sn)] = @ + 1]

visit_figure(shape) ==
    /\ NumberingOnly
    /\ raised = None
    /\ Room
    /\ LET id == NodeId(Len(doc) + 1)
           n == figure_num + 1
           num == FloatLabel(section_num, section_context, n)
       IN  /\ figure_num' = n
           /\ reference_labels' = SetLabels(reference_labels, get_ids(shape.prev, id), num)
           /\ doc' = doc \o TargetNode(shape.prev, id) \o
                     << [kind |-> "figure", parent |-> Parent, removed |-> FALSE, num |-> num,
                         caption |-> label_node(shape.caption, S_Figure \o num, OUTPUT_FORMAT)] >>
    /\ UNCHANGED <<section_num, example_num, table_num, set_section_context,
                   section_context, path, raised>>

visit_table(shape) ==
    /\ NumberingOnly
    /\ raised = None
    /\ Room
    /\ LET id == NodeId(Len(doc) + 1)
           n == table_num + 1
           num == FloatLabel(section_num, section_context, n)
       IN  /\ table_num' = n
           /\ reference_labels' = SetLabels(reference_labels, get_ids(shape.prev, id), num)
           /\ doc' = doc \o TargetNode(shape.prev, id) \o
                     << [kind |-> "table", parent |-> Parent, removed |-> FALSE, num |-> num,
                         caption |-> label_node(shape.caption, S_Table \o num, OUTPUT_FORMAT)] >>
    /\ UNCHANGED <<section_num, example_num, figure_num, set_section_context,
                   section_context, path, raised>>

\* The documents drawn have at most one section title that begins with a
\* number (each gets a \setcounter node put before it) and at most one
\* section-context marker.
NumberedTitle == \E i \in DOMAIN doc : doc[i].kind = "raw" /\ doc[i].cmd = "setcounter"
Marker == \E i \in DOMAIN doc : doc[i].kind = "section_context"

\* start_new_context(node): taken when the section is a top-level one and a
\* context is pending
NewContext_AnyDepth == set_section_context # None
NewContext == Len(section_num) = 1 /\ set_section_context # None
ContextStyle(ctx) ==
    CASE ctx = "preface" -> "Roman" [] ctx = "body" -> "arabic" [] ctx = "appendix" -> "Alph"

\* len(pieces) == len(self.section_num)
Overrides_AnyDepth(pieces, sn) == TRUE
Overrides(pieces, sn) == Len(pieces) = Len(sn)

visit_section(title) ==
    /\ NumberingOnly
    /\ raised = None
    /\ TitleMatch(title).matched => ~NumberedTitle
    /\ OpenOf("example") = {}
    /\ Cardinality(OpenOf("section")) < MaxDepth
    /\ LET ctx == IF NewContext THEN set_section_context ELSE section_context
           sn0 == IF NewContext THEN [section_num EXCEPT ![1] = 0] ELSE section_num
           sn1 == IncrementLast(sn0)
           m == TitleMatch(title)
           pieces == Pieces(title, m.g)
           override == m.matched /\ Overrides(pieces, sn1)
           sn2 == IF override THEN pieces ELSE sn1
           raises == format_section_num_raises(sn2, ctx)
           sectnum == IF raises THEN Nil ELSE format_section_num(sn2, ctx, 0)
           numbered == /\ Len(sn2) <= max_section_depth
                       /\ OUTPUT_FORMAT # "latex"
                       /\ ~(ctx = "preface" /\ no_section_numbers_in_preface)
           raws == (IF NewContext
                    THEN <<RawNode("context", TOP_SECTION, 0, ContextStyle(ctx))>> ELSE <<>>)
                   \o (IF m.matched
                       THEN <<RawNode("setcounter", TOP_SECTION, sn2[1] - 1, None)>> ELSE <<>>)
           node == [kind |-> "section", parent |-> Parent, removed |-> FALSE,
                    level |-> Cardinality(OpenOf("section")) + 1,
                    ids |-> <<NodeId(Len(doc) + 1)>>,
                    title |-> IF override THEN SubSeq(title, m.e + 1, Len(title)) ELSE title,
                    sectnum |-> sectnum,
                    generated |-> IF numbered THEN sectnum ELSE <<>>,
                    newcontext |-> NewContext,
                    override |-> override]
       IN  /\ section_context' = ctx
           /\ set_section_context' = IF NewContext THEN None ELSE set_section_context
           /\ doc' = doc \o raws \o <<node>>
           /\ IF raises
              THEN \* self.format_section_num() raises: nothing after it is done
                   /\ raised' = "IndexError"
                   /\ section_num' = sn2
                   /\ UNCHANGED <<reference_labels, path>>
              ELSE /\ raised' = raised
                   /\ section_num' = sn2 \o <<0>>
                   /\ reference_labels' = SetLabels(reference_labels, node.ids, sectnum)
                   /\ path' = Append(path, Len(doc') )
    /\ UNCHANGED <<example_num, figure_num, table_num>>

depart_section ==
    /\ NumberingOnly
    /\ raised = None
    /\ Len(path) > 0
    /\ doc[Parent].kind = "section"
    /\ section_num' = SubSeq(section_num, 1, Len(section_num) - 1)
    /\ path' = SubSeq(path, 1, Len(path) - 1)
    /\ UNCHANGED <<example_num, figure_num, table_num, set_section_context,
                   section_context, reference_labels, doc, raised>>

\* visit_section_context(node): the marker arms the change and removes itself
visit_section_context(context) ==
    /\ NumberingOnly
    /\ raised = None
    /\ Room
    /\ ~Marker
    /\ set_section_context' = context
    /\ doc' = Append(doc, [kind |-> "section_context", parent |-> Parent, removed |-> TRUE,
                           context |-> context])
    /\ UNCHANGED <<section_num, example_num, figure_num, table_num, section_context,
                   reference_labels, path, raised>>

ExamplesSeen == Cardinality({i \in DOMAIN doc : doc[i].kind = "example"})

visit_example(prev) ==
    /\ NumberingOnly
    /\ raised = None
    /\ LET id == NodeId(Len(doc) + 1)
           en == [example_num EXCEPT ![Len(example_num)] = @ + 1]
           raises == format_example_num_raises(en)
           num == IF raises THEN Nil ELSE format_example_num(en)
       IN  IF raises
           THEN \* self.format_example_num() raises: the counter is stepped,
                \* the node gets no number and no label, and is not entered
                /\ raised' = "IndexError"
                /\ example_num' = en
                /\ UNCHANGED <<reference_labels, doc, path>>
           ELSE /\ raised' = raised
                /\ example_num' = en \o <<0>>
                /\ reference_labels' = SetLabels(reference_labels, get_ids(prev, id), num)
                /\ doc' = doc \o TargetNode(prev, id) \o
                          << [kind |-> "example", parent |-> Parent, removed |-> FALSE,
                              depth |-> Cardinality(OpenOf("example")), num |-> num] >>
                /\ path' = Append(path, Len(doc'))
    /\ UNCHANGED <<section_num, figure_num, table_num, set_section_context, section_context>>

\* node.replace_self(list(node)): the children take the node's place
Spliced_Dropped(d, i) ==
    [k \in DOMAIN d |-> IF k = i \/ d[k].parent = i THEN [d[k] EXCEPT !.removed = TRUE] ELSE d[k]]
Spliced(d, i) ==
    [k \in DOMAIN d |->
        IF k = i THEN [d[k] EXCEPT !.removed = TRUE]
        ELSE IF d[k].parent = i THEN [d[k] EXCEPT !.parent = d[i].parent]
        ELSE d[k]]

depart_example ==
    /\ NumberingOnly
    /\ raised = None
    /\ Len(path) > 0
    /\ doc[Parent].kind = "example"
    /\ doc' = IF example_num[Len(example_num)] > 0 THEN Spliced(doc, Parent) ELSE doc
    /\ example_num' = SubSeq(example_num, 1, Len(example_num) - 1)
    /\ path' = SubSeq(path, 1, Len(path) - 1)
    /\ UNCHANGED <<section_num, figure_num, table_num, set_section_context,
                   section_context, reference_labels, raised>>

\* NumberingVisitor.__init__
NumberingInit ==
    /\ section_num = <<0>>
    /\ example_num = <<0>>
    /\ figure_num = 0
    /\ table_num = 0
    /\ set_section_context = None
    /\ section_context = "body"
    /\ reference_labels = [x \in {} |-> <<>>]
    /\ doc = <<>>
    /\ path = <<>>
    /\ raised = None

\* The other components, idle.
RefIdle == children = <<>> /\ in_contents = FALSE /\ passes = <<>>
ColIdle ==
    /\ s = <<>> /\ inline = FALSE /\ lines = <<>> /\ lineno = 0 /\ pysrc = <<>> /\ pyout = <<>>
    /\ other = <<>> /\ result = <<>> /\ emitted = <<>> /\ pc = "idle"
PipeIdle == transforms = <<>> /\ applied = <<>>
BibIdle ==
    /\ options_bibliography = FALSE /\ main_LOCAL_BIBLIOGRAPHY = FALSE
    /\ LOCAL_BIBLIOGRAPHY = FALSE
    /\ bibliography = [x \in {} |-> Nil] /\ citation_refs = [x \in {} |-> <<>>]
    /\ cite_tree = <<>> /\ cite_pc = "idle"
IdxIdle == terms = [x \in {} |-> Nil] /\ idxterms = <<>> /\ idx_pc = "idle" /\ index = <<>>
EnvIdle == EXTERN_REFERENCE_FILES = <<>> /\ shelf = [x \in {} |-> None]

\* The numbering visitor walking a document of sections, figures, tables and
\* context markers, drawn node by node in document order.
SecInit ==
    /\ OUTPUT_FORMAT \in {"html", "latex"}
    /\ NumberingInit /\ RefIdle /\ ColIdle /\ PipeIdle /\ EnvIdle /\ BibIdle /\ IdxIdle
SecNext ==
    \/ Room /\ \E title \in TitlePool : visit_section(title)
    \/ depart_section
    \/ \E context \in Contexts : visit_section_context(context)
    \/ \E shape \in FigurePool : visit_figure(shape)
    \/ \E shape \in TablePool : visit_table(shape)
SecSpec == SecInit /\ [][SecNext]_vars

\* The numbering visitor walking a document of (nested) examples.
ExInit ==
    /\ OUTPUT_FORMAT = "html"
    /\ NumberingInit /\ RefIdle /\ ColIdle /\ PipeIdle /\ EnvIdle /\ BibIdle /\ IdxIdle
ExNext ==
    \/ ExamplesSeen < MaxExamples /\ \E prev \in PrevKinds : visit_example(prev)
    \/ depart_example
ExSpec == ExInit /\ [][ExNext]_vars

\* The numbering visitor walking a document of sections with examples in
\* them: at most MaxWalk sections and examples in all.
MaxWalk == 3
WalkRoom ==
    Cardinality({i \in DOMAIN doc : doc[i].kind \in {"section", "example"}}) < MaxWalk
WalkInit == SecInit
WalkNext ==
    \/ WalkRoom /\ \E title \in TitlePool : visit_section(title)
    \/ depart_section
    \/ \E context \in Contexts : visit_section_context(context)
    \/ WalkRoom /\ \E prev \in {"none", "ids"} : visit_example(prev)
    \/ depart_example
WalkSpec == WalkInit /\ [][WalkNext]_vars

\* The numbering visitor walking long runs of siblings: top-level sections
\* (after a context marker or without one), or one example with its
\* sub-examples, the first of which has sub-examples of its own.  A run has
\* at most MaxRun members.
MaxRun == 27
PlainTitle == <<"A","i","m">>
NoExamples == \A i \in DOMAIN doc : doc[i].kind # "example"
OnlyExamples == \A i \in DOMAIN doc : doc[i].kind = "example"
SectionRoom == path = <<>> /\ NoExamples /\ section_num[1] < MaxRun
ExampleRoom ==
    /\ OnlyExamples
    /\ CASE Len(path) = 0 -> doc = <<>>
         [] Len(path) = 1 -> example_num[2] < MaxRun
         [] Len(path) = 2 -> example_num[2] = 1 /\ example_num[3] < MaxRun
         [] OTHER -> FALSE
RunInit == ExInit
RunNext ==
    \/ SectionRoom /\ visit_section(PlainTitle)
    \/ depart_section
    \/ NoExamples /\ \E context \in Contexts : visit_section_context(context)
    \/ ExampleRoom /\ visit_example("none")
    \/ depart_example
RunSpec == RunInit /\ [][RunNext]_vars

(***************************************************************************)
(* Claims about the numbering                                              *)
(***************************************************************************)
NodesOf(kind) == {i \in DOMAIN doc : doc[i].kind = kind}
SplitDots(label) == SplitOn(label, ".")

\* The section context in force when node i is visited: the context of the
\* last marker before the last top-level section that adopted one.
AdoptedBefore(i) == {j \in NodesOf("section") : j <= i /\ doc[j].newcontext}
LastOf(S) == CHOOSE x \in S : \A y \in S : y <= x
ContextAt(i) ==
    IF AdoptedBefore(i) = {} THEN "body"
    ELSE doc[LastOf({m \in NodesOf("section_context") : m < LastOf(AdoptedBefore(i))})].context

\* The numeral of n in the alphabet of a context.
Numeral(n, ctx) ==
    CASE ctx = "body" -> Str(n)
      [] ctx = "preface" -> Upper(ROMAN[n])
      [] ctx = "appendix" -> <<UPPERS[n]>>

\* Where the siblings of section i are counted from: its parent, or for a
\* top-level section the last section that adopted a new context.
SiblingsFrom(i) ==
    IF doc[i].level > 1 THEN doc[i].parent
    ELSE IF AdoptedBefore(i) = {} THEN 0 ELSE LastOf(AdoptedBefore(i))
SectionRank(i) ==
    Cardinality({j \in NodesOf("section") :
                    /\ doc[j].level = doc[i].level /\ doc[j].parent = doc[i].parent
                    /\ SiblingsFrom(i) <= j /\ j <= i})
\* No title between the start of the count and section i carried an explicit
\* number that matched its depth.
NoExplicitNumber(i) ==
    \A j \in NodesOf("section") : (SiblingsFrom(i) <= j /\ j <= i /\ j # doc[i].parent) => ~doc[j].override
RankPiece(i) ==
    SplitDots(doc[i].sectnum)[doc[i].level] =
        Numeral(SectionRank(i), IF doc[i].level = 1 THEN ContextAt(i) ELSE "body")

\* C4 as stated: position d of every section label is the section's rank among
\* its same-depth siblings under the same parent since the last context change.
C4_RankAlways == \A i \in NodesOf("section") : RankPiece(i)

\* C4 amended: position d of a section label is the numeral of the section's
\* rank among its same-depth siblings under the same parent since the last
\* context change, unless an explicit number matching the nesting depth was
\* given in a title since that count began.
C4_RankUnlessExplicit == \A i \in NodesOf("section") : NoExplicitNumber(i) => RankPiece(i)

C4_Witness ==
    \E i \in NodesOf("section") :
        /\ doc[i].level = 2 /\ SectionRank(i) = 2 /\ NoExplicitNumber(i)
        /\ SplitDots(doc[i].sectnum) = << <<"1">>, <<"2">> >>

\* The example that encloses example i at depth k (i itself at its own depth).
ExampleAt(i, k) == LastOf({j \in NodesOf("example") : j <= i /\ doc[j].depth = k})
ExampleRank(i, k) ==
    LET a == ExampleAt(i, k)
        from == IF k = 0 THEN 0 ELSE ExampleAt(i, k - 1)
    IN  Cardinality({j \in NodesOf("example") : doc[j].depth = k /\ from < j /\ j <= a})
RECURSIVE ArabicFrom(_, _)
ArabicFrom(i, k) ==
    IF k > doc[i].depth THEN <<>> ELSE <<".">> \o Str(ExampleRank(i, k)) \o ArabicFrom(i, k + 1)
ExpectedExampleLabel(i) ==
    <<"(">> \o Str(ExampleRank(i, 0))
            \o (IF doc[i].depth >= 1 THEN <<LETTERS[ExampleRank(i, 1)]>> ELSE <<>>)
            \o (IF doc[i].depth >= 2 THEN <<".">> \o ROMAN[ExampleRank(i, 2)] ELSE <<>>)
            \o ArabicFrom(i, 3)
            \o <<")">>

\* C5: an example is labelled by its rank at each depth, in the alphabet of
\* the depth: (k), (k<letter>), (k<letter>.<roman>), then .<arabic>; the first
\* example of the document is (1) and nested ranks restart in each parent.
C5_ExampleLabels ==
    /\ \A i \in NodesOf("example") : doc[i].num = ExpectedExampleLabel(i)
    /\ NodesOf("example") # {} =>
          doc[CHOOSE i \in NodesOf("example") : \A j \in NodesOf("example") : i <= j].num
             = <<"(","1",")">>

C5_Witness ==
    \E a, b, c, d \in NodesOf("example") :
        /\ a < b /\ b < c /\ c < d
        /\ doc[a].num = <<"(","1",")">>
        /\ doc[b].num = <<"(","1","a",")">>
        /\ doc[c].num = <<"(","1","a",".","i",")">>
        /\ doc[d].num = <<"(","2",")">>

\* The numeral of the top-level section counter when node i is visited: the
\* first piece of the last section label given before i ("0" before any).
TopNumeralAt(i) ==
    LET before == {j \in NodesOf("section") : j < i}
    IN  IF before = {} THEN <<"0">> ELSE SplitDots(doc[LastOf(before)].sectnum)[1]
CountUpTo(kind, i) == Cardinality({j \in NodesOf(kind) : j <= i})

\* C6: the n-th figure is labelled <top-level numeral>.n and the n-th table
\* likewise, whatever tables, figures, sections and context markers precede.
C6_FloatCounters ==
    /\ \A i \in NodesOf("figure") :
          doc[i].num = TopNumeralAt(i) \o <<".">> \o Str(CountUpTo("figure", i))
    /\ \A i \in NodesOf("table") :
          doc[i].num = TopNumeralAt(i) \o <<".">> \o Str(CountUpTo("table", i))

C6_Witness ==
    \E i \in NodesOf("figure") :
        /\ CountUpTo("figure", i) = 2
        /\ \E j \in NodesOf("table") : j < i
        /\ \E k \in NodesOf("section") :
              /\ k < i /\ doc[k].newcontext
              /\ \E f \in NodesOf("figure") : f < k

\* The nodes a step adds to the document, and the label of such a node.
NewNodes == (Len(doc) + 1)..Len(doc')
NewLabelled == {i \in NewNodes : doc'[i].kind \in {"section", "figure", "table"}}
LabelOf(n) == IF n.kind = "section" THEN n.sectnum ELSE n.num
Explicit(n) == n.kind = "section" /\ n.override
MarkerStep == \E i \in NewNodes : doc'[i].kind = "section_context"
TopSectionStep == Len(section_num) = 1 /\ Len(section_num') = 2
Pending == set_section_context # None

\* C11 as stated: a marker only arms the change; until the next top-level
\* section every label is made of the previous context's alphabet and
\* counters; the next top-level section adopts the context, is labelled with
\* the first numeral of the new alphabet, and clears the pending change.
C11_FirstNumeral ==
    [][/\ MarkerStep =>
            /\ section_context' = section_context /\ section_num' = section_num
            /\ \E i \in NewNodes : set_section_context' = doc'[i].context
       /\ (Pending /\ ~MarkerStep /\ ~TopSectionStep) =>
            /\ section_context' = section_context /\ set_section_context' = set_section_context
            /\ \A i \in NewLabelled :
                  SplitDots(LabelOf(doc'[i]))[1] = Numeral(section_num[1], section_context)
       /\ (Pending /\ TopSectionStep) =>
            /\ section_context' = set_section_context /\ set_section_context' = None
            /\ \A i \in NewLabelled : LabelOf(doc'[i]) = Numeral(1, set_section_context)]_vars

\* C11 amended: a marker only arms the change; until the next top-level
\* section every label is in the previous context's alphabet, and made of
\* the previous counters unless the title carries an explicit number of the
\* section's depth; the next top-level section adopts the context, clears
\* the pending change, resets the top-level counter, and is labelled with
\* the first numeral of the new alphabet unless its title carries an explicit
\* one-piece number, which is then its label in the new alphabet.
C11_FirstNumeralUnlessExplicit ==
    [][/\ MarkerStep =>
            /\ section_context' = section_context /\ section_num' = section_num
            /\ \E i \in NewNodes : set_section_context' = doc'[i].context
       /\ (Pending /\ ~MarkerStep /\ ~TopSectionStep) =>
            /\ section_context' = section_context /\ set_section_context' = set_section_context
            /\ \A i \in NewLabelled :
                  SplitDots(LabelOf(doc'[i]))[1] =
                      Numeral(IF Explicit(doc'[i]) THEN section_num'[1] ELSE section_num[1],
                              section_context)
       /\ (Pending /\ TopSectionStep) =>
            /\ section_context' = set_section_context /\ set_section_context' = None
            /\ \A i \in NewLabelled :
                  /\ ~Explicit(doc'[i]) =>
                        /\ LabelOf(doc'[i]) = Numeral(1, set_section_context)
                        /\ section_num' = <<1, 0>>
                  /\ Explicit(doc'[i]) =>
                        LabelOf(doc'[i]) = Numeral(section_num'[1], set_section_context)]_vars

\* A figure numbered between the marker and the section that adopts the
\* appendix context, which is then labelled A.
C11_Witness ==
    \E m \in NodesOf("section_context"), f \in NodesOf("figure"), k \in NodesOf("section") :
        /\ m < f /\ f < k
        /\ doc[m].context = "appendix" /\ doc[m].parent # 0
        /\ doc[f].num = <<"1",".","1">>
        /\ doc[k].newcontext /\ doc[k].sectnum = <<"A">>
        /\ section_context = "appendix" /\ set_section_context = None

\* The section a step enters, if any, whose title begins with an explicit
\* number that did not replace the counters.
NewSections == {i \in NewNodes : doc'[i].kind = "section"}
Mismatched(n) == TitleMatch(n.title).matched /\ ~n.override
CountedFrom == IF NewContext THEN [section_num EXCEPT ![1] = 0] ELSE section_num

\* C19 as stated: a title number whose depth differs from the nesting depth
\* is ignored.  The step is the step of a title without a number: the
\* counters are the incremented ones, the label is derived from them, the
\* title keeps its text, and nothing is emitted that sets a counter used for
\* the sections that follow.
C19_MismatchIgnored ==
    [][\A i \in NewSections :
          Mismatched(doc'[i]) =>
              /\ section_num' = IncrementLast(CountedFrom) \o <<0>>
              /\ doc'[i].sectnum = format_section_num(IncrementLast(CountedFrom), section_context', 0)
              /\ doc'[i].title \in TitlePool
              /\ \A j \in NewNodes : doc'[j].kind = "raw" => doc'[j].cmd # "setcounter"]_vars

\* The titles whose explicit number, of as many pieces as the section is
\* deep, leaves the title text of section i once the matched prefix is cut.
ExplicitNumber(title) == SplitDots(SubSeq(title, 1, TitleMatch(title).g))
ExplicitTitles(i) ==
    {title \in TitlePool :
        /\ TitleMatch(title).matched
        /\ Len(ExplicitNumber(title)) = doc[i].level
        /\ SubSeq(title, TitleMatch(title).e + 1, Len(title)) = doc[i].title}
\* The number as written, its first piece in the alphabet of the context.
ExplicitLabel(number, ctx) ==
    Join([number EXCEPT ![1] = Numeral(ParseInt(@), ctx)], <<".">>)
Siblings(i) ==
    {j \in NodesOf("section") : j > i /\ doc[j].parent = doc[i].parent /\ doc[j].level = doc[i].level}
NextSibling(i) == CHOOSE j \in Siblings(i) : \A k \in Siblings(i) : j <= k
\* The label of the sibling that follows a section numbered pieces.
FollowsOn(j, pieces) ==
    doc[j].sectnum =
        ExplicitLabel([pieces EXCEPT ![Len(pieces)] = Str(ParseInt(@) + 1)],
                      IF doc[j].level = 1 THEN ContextAt(j) ELSE ContextAt(doc[j].parent))
Overridden(i, continues(_)) ==
    \E title \in ExplicitTitles(i) :
        LET pieces == ExplicitNumber(title)
        IN  /\ doc[i].sectnum =
                  ExplicitLabel(pieces, IF doc[i].level = 1 THEN ContextAt(i) ELSE ContextAt(doc[i].parent))
            /\ Len(SplitDots(doc[i].sectnum)) = doc[i].level
            /\ (Siblings(i) # {} /\ continues(NextSibling(i))) => FollowsOn(NextSibling(i), pieces)
AnySibling(j) == TRUE
SameContext(j) == ~doc[j].newcontext /\ ~doc[j].override

\* C20 as stated: an explicit number of as many pieces as the nesting depth
\* replaces the counters: the label is the explicit number, its first piece
\* in the alphabet of the context; the prefix is cut from the title; the
\* depth of the stack is kept; and the next sibling at that depth is
\* labelled with the last piece plus one.
C20_NextSiblingFollows ==
    \A i \in NodesOf("section") : doc[i].override => Overridden(i, AnySibling)

\* C20 amended: as above, but the next sibling at that depth is labelled
\* with the last piece plus one only if it has no matching explicit number
\* of its own and, at the top level, no context change takes effect with it
\* (a top-level sibling that starts a new context is numbered from one
\* again, in the new alphabet).
C20_NextSiblingInContext ==
    \A i \in NodesOf("section") : doc[i].override => Overridden(i, SameContext)

C20_Witness ==
    \E i, j \in NodesOf("section") :
        /\ doc[i].override /\ doc[i].level = 2
        /\ doc[i].sectnum = <<"5",".","2">> /\ doc[i].title = <<"A","i","m">>
        /\ Siblings(i) # {} /\ j = NextSibling(i)
        /\ doc[j].sectnum = <<"5",".","3">>

\* The nodes that are children of node i, in document order, and the step
\* that leaves an example.
ChildrenOf(d, i) == {k \in DOMAIN d : d[k].parent = i /\ ~d[k].removed}
LeavesExample == Len(path) > 0 /\ doc[Parent].kind = "example" /\ path' = SubSeq(path, 1, Len(path) - 1)
NumberedInside(i) == \E j \in NodesOf("example") : j > i /\ doc[j].parent = i
Remaining == {i \in NodesOf("example") : ~doc[i].removed}

\* C21: an example that is left with an example numbered inside it is taken
\* out of the tree and its children take its place under its parent, in
\* their order; an example with none is left as it is.  No node loses its
\* label.  When the walk is over, no example that remains has an example
\* below it.
C21_Flattened ==
    [][LeavesExample =>
          /\ IF NumberedInside(Parent)
             THEN /\ doc'[Parent].removed
                  /\ ChildrenOf(doc', Parent) = {}
                  /\ ChildrenOf(doc', doc[Parent].parent) =
                        (ChildrenOf(doc, doc[Parent].parent) \ {Parent}) \cup ChildrenOf(doc, Parent)
                  /\ \A k \in DOMAIN doc : k # Parent => doc'[k].removed = doc[k].removed
             ELSE doc' = doc
          /\ Len(doc') = Len(doc)
          /\ \A k \in NodesOf("example") : doc'[k].num = doc[k].num
          /\ reference_labels' = reference_labels
          /\ path' = <<>> =>
                \A k \in NodesOf("example") :
                    ~doc'[k].removed => (doc'[k].parent = 0 /\ ChildrenOf(doc', k) \cap NodesOf("example") = {})]_vars

\* A finished walk: (1) held (1a), which held (1a.i); (1) and (1a) were taken
\* out and (1a.i) remains, at the root, with its label.
C21_Witness ==
    /\ path = <<>>
    /\ \E a, b, c \in NodesOf("example") :
          /\ a < b /\ b < c
          /\ doc[a].removed /\ doc[b].removed /\ ~doc[c].removed
          /\ doc[c].parent = 0
          /\ doc[c].num = <<"(","1","a",".","i",")">>

\* C26: the numbering pass never aborts, whatever the counts: the traversal
\* goes on, with a label for every node, past 26 sub-examples of one example,
\* 20 third-level sub-examples, 20 top-level sections of the preface and 26
\* top-level sections of the appendix.
C26_NeverAborts == raised = None

\* C18: at every point of the traversal the section counter stack is one
\* longer than the number of sections entered and not yet left, and the
\* example counter stack one longer than the number of examples entered and
\* not yet left (so each is pushed once per node entered, popped once per
\* node left, and never empty); both have length 1 when the traversal is
\* back at the root.
C18_StackDepths ==
    /\ Len(section_num) = 1 + Cardinality(OpenOf("section"))
    /\ Len(example_num) = 1 + Cardinality(OpenOf("example"))
    /\ path = <<>> => Len(section_num) = 1 /\ Len(example_num) = 1

\* A finished walk in which an explicit number replaced the stack and an
\* example was flattened.
C18_Witness ==
    /\ path = <<>>
    /\ \E k \in NodesOf("section") : doc[k].override
    /\ \E e \in NodesOf("example") : doc[e].removed
    /\ section_num = <<5>>
    /\ example_num = <<1>>

(***************************************************************************)
(* The reference passes: ReferenceVisitor (NumberReferences) and           *)
(* ExternalCrossrefVisitor (ResolveExternalCrossrefs)                      *)
(***************************************************************************)
EXPAND_WORDS == << <<"f","i","g","u","r","e">>, <<"t","a","b","l","e">>,
                   <<"e","x","a","m","p","l","e">>, <<"c","h","a","p","t","e","r">>,
                   <<"s","e","c","t","i","o","n">>, <<"a","p","p","e","n","d","i","x">>,
                   <<"s","e","n","t","e","n","c","e">>, <<"t","r","e","e">> >>

EndsWith(t, w) == Len(w) <= Len(t) /\ SubSeq(t, Len(t) - Len(w) + 1, Len(t)) = w

\* _EXPAND_REF_RE.match(data), r'(?is)^(.*)(figure|...|tree)\s+$': the text
\* ends with one of the words, in any case, and at least one whitespace.
\* g1 and g2 are the lengths of group(1) and group(2).
ExpandMatch(data) ==
    LET r == RStrip(data)
        ws == {k \in DOMAIN EXPAND_WORDS : EndsWith(Lower(r), EXPAND_WORDS[k])}
    IN  IF Len(r) = Len(data) \/ ws = {} THEN [matched |-> FALSE, g1 |-> 0, g2 |-> 0]
        ELSE LET k == CHOOSE x \in ws : \A y \in ws : Len(EXPAND_WORDS[x]) <= Len(EXPAND_WORDS[y])
             IN  [matched |-> TRUE, g1 |-> Len(r) - Len(EXPAND_WORDS[k]), g2 |-> Len(EXPAND_WORDS[k])]

\* expand_reference_text(node), node being child i of ch
expand_reference_text(ch, i) ==
    IF i > 1 /\ ch[i - 1].kind = "Text" /\ ExpandMatch(ch[i - 1].data).matched
    THEN LET m == ExpandMatch(ch[i - 1].data)
             data == ch[i - 1].data
         IN  [ch EXCEPT ![i - 1].data = SubSeq(data, 1, m.g1),
                        ![i].text = SubSeq(data, m.g1 + 1, m.g1 + m.g2) \o <<" ">> \o ch[i].text]
    ELSE ch

\* node.get('refid') or node.get('refname')
RefTarget(node) == IF node.refid # Nil /\ node.refid # <<>> THEN node.refid ELSE node.refname

\* ReferenceVisitor.visit_reference(node), node being child i of ch
Reference_visit_reference(ch, i, labels) ==
    IF RefTarget(ch[i]) \in DOMAIN labels
    THEN expand_reference_text([ch EXCEPT ![i].text = labels[RefTarget(ch[i])]], i)
    ELSE ch

\* ExternalCrossrefVisitor.visit_reference(node), node being child i of ch
FormatRefuri(uri, id) == uri \o <<"#">> \o id
External_visit_reference_Unmarked(ch, i, ref_dict) ==
    IF ch[i].resolved \/ RefTarget(ch[i]) \notin DOMAIN ref_dict THEN ch
    ELSE LET e == ref_dict[RefTarget(ch[i])]
             ch1 == [ch EXCEPT ![i].refuri = FormatRefuri(e.uri, RefTarget(ch[i]))]
         IN  IF e.label # Nil THEN expand_reference_text([ch1 EXCEPT ![i].text = e.label], i)
             ELSE ch1
External_visit_reference(ch, i, ref_dict) ==
    IF ch[i].resolved THEN ch
    ELSE IF RefTarget(ch[i]) \in DOMAIN ref_dict
    THEN LET e == ref_dict[RefTarget(ch[i])]
             ch1 == [ch EXCEPT ![i].refuri = FormatRefuri(e.uri, RefTarget(ch[i])),
                               ![i].resolved = TRUE]
         IN  IF e.label # Nil THEN expand_reference_text([ch1 EXCEPT ![i].text = e.label], i)
             ELSE ch1
    ELSE ch

\* document.walkabout(v): the children are visited in order; the table of
\* contents is skipped (visit_topic raises SkipNode).
RECURSIVE WalkLocal(_, _, _)
WalkLocal(ch, i, labels) ==
    IF i > Len(ch) THEN ch
    ELSE WalkLocal(IF ch[i].kind = "reference" THEN Reference_visit_reference(ch, i, labels) ELSE ch,
                   i + 1, labels)
LocalPass(ch, contents, labels) == IF contents THEN ch ELSE WalkLocal(ch, 1, labels)

RECURSIVE WalkExternal(_, _, _)
WalkExternal(ch, i, ref_dict) ==
    IF i > Len(ch) THEN ch
    ELSE WalkExternal(IF ch[i].kind = "reference" THEN External_visit_reference(ch, i, ref_dict) ELSE ch,
                      i + 1, ref_dict)
ExternalPass(ch, contents, ref_dict) == IF contents THEN ch ELSE WalkExternal(ch, 1, ref_dict)

\* ReferenceVisitor.unknown_visit: the names and ids of the other elements
TargetsOf(ch, contents) ==
    IF contents THEN {}
    ELSE UNION {Range(ch[i].ids) : i \in {j \in DOMAIN ch : ch[j].kind = "target"}}

\* The same over the nodes the numbering visitor walked: the elements still
\* in the tree that carry ids are the sections and the targets placed before
\* figures, tables and examples (names, collected too, are not drawn).
TargetsIn_SectionsOnly(d) ==
    UNION {Range(d[i].ids) : i \in {j \in DOMAIN d : ~d[j].removed /\ d[j].kind = "section"}}
TargetsIn(d) ==
    UNION {Range(d[i].ids) :
             i \in {j \in DOMAIN d : ~d[j].removed /\ d[j].kind \in {"section", "target"}}}

\* os.path.splitext(filename)[0] and os.path.split(basename)[-1]
LastIndexOf(t, c) ==
    IF \E i \in DOMAIN t : t[i] = c
    THEN CHOOSE i \in DOMAIN t : t[i] = c /\ \A j \in (i + 1)..Len(t) : t[j] # c
    ELSE 0
SplitExt(t) ==
    IF LastIndexOf(t, ".") > LastIndexOf(t, "/") + 1 THEN SubSeq(t, 1, LastIndexOf(t, ".") - 1) ELSE t
PathTail(t) == SubSeq(t, LastIndexOf(t, "/") + 1, Len(t))
RefFile(basename) == basename \o <<".","r","e","f">>

\* ResolveExternalCrossrefs.build_ref_dict(): {target -> (uri, label)}
ExternalUri(filename, fmt) ==
    PathTail(SplitExt(filename)) \o
        (IF fmt = "html" THEN <<".","h","t","m","l">> ELSE <<".","p","d","f">>)
RecordEntries(uri, d, ref_dict) ==
    [x \in DOMAIN ref_dict \cup d.targets |->
        IF x \in d.targets
        THEN [uri |-> uri,
              label |-> IF x \in DOMAIN d.reference_labels THEN d.reference_labels[x] ELSE Nil]
        ELSE ref_dict[x]]
RECURSIVE BuildFrom(_, _, _, _)
BuildFrom(files, disk, fmt, ref_dict) ==
    IF Len(files) = 0 THEN ref_dict
    ELSE LET name == RefFile(SplitExt(files[1]))
         IN  BuildFrom(Tail(files), disk, fmt,
                       IF name \notin DOMAIN disk THEN ref_dict
                       ELSE RecordEntries(ExternalUri(files[1], fmt), disk[name], ref_dict))
build_ref_dict_UntilMissing(files, disk, fmt) ==
    IF \A i \in DOMAIN files : RefFile(SplitExt(files[i])) \in DOMAIN disk
    THEN BuildFrom(files, disk, fmt, [x \in {} |-> Nil])
    ELSE [x \in {} |-> Nil]
build_ref_dict(files, disk, fmt) == BuildFrom(files, disk, fmt, [x \in {} |-> Nil])

OUTPUT_BASENAME == <<"c","h","1">>

\* NumberReferences.apply(): the local pass, and in a 'ref' run the write of
\* the labels and targets to this document's .ref file
NumberReferences_run ==
    /\ children' = LocalPass(children, in_contents, reference_labels)
    /\ shelf' = IF OUTPUT_FORMAT = "ref"
                THEN LET name == RefFile(OUTPUT_BASENAME)
                         old == IF name \in DOMAIN shelf THEN shelf[name] ELSE [x \in {} |-> Nil]
                         new == [reference_labels |-> reference_labels,
                                 targets |-> TargetsOf(children', in_contents) \cup TargetsIn(doc)]
                     IN  [f \in DOMAIN shelf \cup {name} |->
                            IF f = name THEN new @@ old ELSE shelf[f]]
                ELSE shelf
    /\ passes' = Append(passes, "local")
    /\ UNCHANGED <<in_contents, OUTPUT_FORMAT, EXTERN_REFERENCE_FILES, reference_labels>>
NumberReferences_apply == ReferencesOnly /\ Len(passes) < MaxPasses /\ NumberReferences_run

\* ResolveExternalCrossrefs.apply(): the cross-file pass
ResolveExternalCrossrefs_run ==
    /\ children' = ExternalPass(children, in_contents,
                                build_ref_dict(EXTERN_REFERENCE_FILES, shelf, OUTPUT_FORMAT))
    /\ passes' = Append(passes, "external")
    /\ UNCHANGED <<in_contents, OUTPUT_FORMAT, EXTERN_REFERENCE_FILES, reference_labels, shelf>>
ResolveExternalCrossrefs_apply ==
    ReferencesOnly /\ Len(passes) < MaxPasses /\ ResolveExternalCrossrefs_run

\* ---- the inputs drawn
Id_f1 == <<"f","1">>
Id_g2 == <<"g","2">>
File_ch2 == <<"c","h","2",".","r","e","f">>
File_ch3 == <<"d","/","c","h","3",".","r","e","f">>
Record_ch2 == [reference_labels |-> (Id_f1 :> <<"7",".","2">>) @@ (Id_g2 :> <<"(","4",")">>),
               targets |-> {Id_f1, Id_g2}]
Record_ch3 == [reference_labels |-> [x \in {} |-> Nil], targets |-> {Id_g2}]

TextPool == { [kind |-> "Text", data |-> <<"s","e","e"," ","F","i","g","u","r","e"," ">>],
              [kind |-> "Text", data |-> <<"s","e","e"," ">>] }
RefNode(refid, refname, refuri, resolved) ==
    [kind |-> "reference", refid |-> refid, refname |-> refname, refuri |-> refuri,
     resolved |-> resolved, text |-> <<"f","i","g">>]
ReferencePool == { RefNode(Id_f1, Nil, Nil, FALSE),
                   RefNode(Nil, Id_g2, Nil, FALSE),
                   RefNode(Id_g2, Nil, Nil, TRUE),
                   RefNode(Nil, Nil, <<"h","t","t","p",":","/","/","x">>, TRUE) }
NodePool == TextPool \cup ReferencePool
LabelPool == { [x \in {} |-> Nil], (Id_f1 :> <<"3",".","1">>) }
\* The external files named on the command line, and the .ref files on disk.
ExternPool == { [files |-> <<>>, disk |-> [x \in {} |-> Nil]],
                [files |-> <<File_ch2>>, disk |-> (File_ch2 :> Record_ch2)],
                [files |-> <<File_ch2, File_ch3>>, disk |-> (File_ch2 :> Record_ch2) @@ (File_ch3 :> Record_ch3)],
                [files |-> <<File_ch3, File_ch2>>, disk |-> (File_ch2 :> Record_ch2) @@ (File_ch3 :> Record_ch3)],
                [files |-> <<File_ch2, File_ch3>>, disk |-> (File_ch3 :> Record_ch3)] }

NumIdle ==
    /\ section_num = <<0>> /\ example_num = <<0>> /\ figure_num = 0 /\ table_num = 0
    /\ set_section_context = None /\ section_context = "body" /\ doc = <<>> /\ path = <<>>
    /\ raised = None

RefInit ==
    /\ OUTPUT_FORMAT \in {"html", "ref"}
    /\ \E e \in ExternPool : EXTERN_REFERENCE_FILES = e.files /\ shelf = e.disk
    /\ reference_labels \in LabelPool
    /\ \E n \in 1..MaxChildren : children \in [1..n -> NodePool]
    /\ in_contents \in BOOLEAN
    /\ passes = <<>>
    /\ NumIdle /\ ColIdle /\ PipeIdle /\ BibIdle /\ IdxIdle
RefNext ==
    \/ NumberReferences_apply
    \/ ResolveExternalCrossrefs_apply
RefSpec == RefInit /\ [][RefNext]_vars

\* A reference-export run: NumberNodes walks a document of sections, figures,
\* tables and (nested) examples, at most MaxExport of them in all, and then
\* NumberReferences walks it and writes the .ref record.
MaxExport == 4
ExportRoom ==
    /\ passes = <<>>
    /\ Cardinality({i \in DOMAIN doc :
                      doc[i].kind \in {"section", "figure", "table", "example"}}) < MaxExport
ExportTablePool == { [prev |-> "ids", caption |-> FALSE] }
ExportInit ==
    /\ OUTPUT_FORMAT = "ref"
    /\ NumberingInit /\ RefIdle /\ ColIdle /\ PipeIdle /\ EnvIdle /\ BibIdle /\ IdxIdle
ExportNext ==
    \/ ExportRoom /\ visit_section(PlainTitle)
    \/ passes = <<>> /\ depart_section
    \/ ExportRoom /\ \E shape \in FigurePool : visit_figure(shape)
    \/ ExportRoom /\ \E shape \in ExportTablePool : visit_table(shape)
    \/ ExportRoom /\ \E prev \in PrevKinds : visit_example(prev)
    \/ passes = <<>> /\ depart_example
    \/ path = <<>> /\ raised = None /\ passes = <<>> /\ NumberReferences_apply
ExportSpec == ExportInit /\ [][ExportNext]_vars

(***************************************************************************)
(* Claims about the reference passes                                       *)
(***************************************************************************)
LocalStep == passes' = Append(passes, "local")
ExternalStep == passes' = Append(passes, "external")
LastPass == passes[Len(passes)]
References == {i \in DOMAIN children : children[i].kind = "reference"}
RefDict == build_ref_dict(EXTERN_REFERENCE_FILES, shelf, OUTPUT_FORMAT)

\* C1 as stated: applying the local pass, or the cross-file pass, a second
\* time to the tree it has just processed changes no reference text, link
\* target or preceding text.
C1_Idempotent ==
    [][(/\ passes # <<>>
        /\ \/ LocalStep /\ LastPass = "local"
           \/ ExternalStep /\ LastPass = "external") => children' = children]_vars

\* C2 as stated: once the local pass has run, the cross-file pass changes
\* neither the link target nor the text of a reference whose identifier is in
\* the document's own label table; and the local pass does not modify a
\* reference that the cross-file pass has resolved.
ResolvedExternally(i) ==
    /\ children[i].resolved
    /\ RefTarget(children[i]) \in DOMAIN RefDict
    /\ children[i].refuri = FormatRefuri(RefDict[RefTarget(children[i])].uri, RefTarget(children[i]))
C2_SkippedByOther ==
    [][/\ (ExternalStep /\ "local" \in Range(passes)) =>
            \A i \in References :
                RefTarget(children[i]) \in DOMAIN reference_labels =>
                    /\ children'[i].refuri = children[i].refuri
                    /\ children'[i].text = children[i].text
       /\ (LocalStep /\ "external" \in Range(passes)) =>
            \A i \in References : ResolvedExternally(i) => children'[i] = children[i]]_vars

\* C3 as stated: on every tree, local-then-cross-file and
\* cross-file-then-local give the same texts, link targets and preceding
\* text nodes.
C3_Commute ==
    passes = <<>> =>
        ExternalPass(LocalPass(children, in_contents, reference_labels), in_contents, RefDict)
          = LocalPass(ExternalPass(children, in_contents, RefDict), in_contents, reference_labels)

\* The configured files whose .ref record exists and lists the identifier,
\* by position on the command line.
Listing(id) ==
    {k \in DOMAIN EXTERN_REFERENCE_FILES :
        /\ EXTERN_REFERENCE_FILES[k] \in DOMAIN shelf
        /\ id \in shelf[EXTERN_REFERENCE_FILES[k]].targets}
DocName(file) ==
    CASE file = File_ch2 -> <<"c","h","2">>
      [] file = File_ch3 -> <<"c","h","3">>
DocUri(file) ==
    DocName(file) \o (IF OUTPUT_FORMAT = "html" THEN <<".","h","t","m","l">> ELSE <<".","p","d","f">>)
HasLabel(file, id) == id \in DOMAIN shelf[file].reference_labels
\* The classifier word (with a space) that the reference at i takes over
\* from the text before it.
AbsorbedWord(i) ==
    IF i > 1 /\ children[i - 1].kind = "Text" /\ ExpandMatch(children[i - 1].data).matched
    THEN LET m == ExpandMatch(children[i - 1].data)
         IN  SubSeq(children[i - 1].data, m.g1 + 1, m.g1 + m.g2) \o <<" ">>
    ELSE <<>>

\* C9 as stated: the cross-file pass resolves every reference whose identifier
\* is not in the local label table but is listed by a configured record: the
\* link target becomes <uri>#<identifier>, the node is marked resolved and the
\* text becomes the record's label, if it holds one.
C9_AlwaysResolved ==
    [][ExternalStep =>
        \A i \in References :
            LET id == RefTarget(children[i])
            IN  (id \notin DOMAIN reference_labels /\ Listing(id) # {}) =>
                    \E k \in Listing(id) :
                        LET file == EXTERN_REFERENCE_FILES[k]
                        IN  /\ children'[i].refuri = DocUri(file) \o <<"#">> \o id
                            /\ children'[i].resolved
                            /\ HasLabel(file, id) =>
                                  children'[i].text = shelf[file].reference_labels[id]]_vars

\* C9 amended: the cross-file pass resolves every reference that is not yet
\* marked resolved, lies outside the table of contents, and whose identifier
\* is not in the local label table but is listed by a configured record that
\* exists: the link target becomes <uri>#<identifier> for the last such
\* record on the command line, the node is marked resolved, and if that
\* record holds a label the text becomes the label, preceded by the
\* classifier word taken over from the text before the reference, if any.
C9_UnresolvedResolved ==
    [][ExternalStep =>
        \A i \in References :
            LET id == RefTarget(children[i])
            IN  (/\ ~children[i].resolved /\ ~in_contents
                 /\ id \notin DOMAIN reference_labels /\ Listing(id) # {}) =>
                    LET file == EXTERN_REFERENCE_FILES[LastOf(Listing(id))]
                    IN  /\ children'[i].refuri = DocUri(file) \o <<"#">> \o id
                        /\ children'[i].resolved
                        /\ HasLabel(file, id) =>
                              children'[i].text = AbsorbedWord(i) \o shelf[file].reference_labels[id]
                        /\ ~HasLabel(file, id) => children'[i].text = children[i].text]_vars

C9_Witness ==
    /\ passes = <<"external">>
    /\ reference_labels = [x \in {} |-> Nil]
    /\ \E i \in References :
          /\ children[i].refname = Id_g2
          /\ children[i].resolved
          /\ children[i].refuri = <<"c","h","2",".","h","t","m","l","#","g","2">>
          /\ children[i].text = <<"F","i","g","u","r","e"," ","(","4",")">>
          /\ children[i - 1].data = <<"s","e","e"," ">>

\* The configured files whose record is missing, and the identifiers listed
\* by the records that exist.
MissingRecords ==
    {k \in DOMAIN EXTERN_REFERENCE_FILES : EXTERN_REFERENCE_FILES[k] \notin DOMAIN shelf}
ExistingTargets ==
    UNION {shelf[EXTERN_REFERENCE_FILES[k]].targets :
              k \in DOMAIN EXTERN_REFERENCE_FILES \ MissingRecords}

\* C16: when a configured record is missing, the cross-file lookup holds
\* exactly the identifiers listed by the records that exist, and the
\* cross-file pass completes, leaving every reference to any other
\* identifier as it was.
C16_MissingRecordSkipped ==
    [][(ExternalStep /\ MissingRecords # {}) =>
          /\ DOMAIN RefDict = ExistingTargets
          /\ \A i \in References :
                RefTarget(children[i]) \notin ExistingTargets => children'[i] = children[i]]_vars

C16_Witness ==
    /\ passes = <<"external">>
    /\ EXTERN_REFERENCE_FILES = <<File_ch2, File_ch3>>
    /\ File_ch2 \notin DOMAIN shelf
    /\ Len(children) = 2
    /\ children[1] = RefNode(Id_f1, Nil, Nil, FALSE)
    /\ children[2].kind = "reference"
    /\ children[2].refname = Id_g2 /\ children[2].resolved
    /\ children[2].refuri = <<"c","h","3",".","h","t","m","l","#","g","2">>

\* The record that this run has written to the document's .ref file.
HasExported == RefFile(OUTPUT_BASENAME) \in DOMAIN shelf
Exported == shelf[RefFile(OUTPUT_BASENAME)]
Anchor(i) == IF i > 1 /\ doc[i - 1].kind = "target" THEN doc[i - 1].ids ELSE <<>>

\* C28: in a reference-export run, every identifier that has a label in the
\* exported reference_labels is a member of the exported targets: the anchors
\* of sections, figures, tables and examples, flattened examples included.
C28_LabelledAreTargets ==
    HasExported => DOMAIN Exported.reference_labels \subseteq Exported.targets
C28_Witness ==
    /\ HasExported
    /\ \E i \in NodesOf("section") : doc[i].ids[1] \in DOMAIN Exported.reference_labels
    /\ \E i \in NodesOf("figure") :
          Anchor(i) # <<>> /\ Anchor(i)[1] \in DOMAIN Exported.reference_labels
    /\ \E i \in NodesOf("example") :
          /\ doc[i].removed
          /\ Anchor(i) # <<>>
          /\ Anchor(i)[1] \in DOMAIN Exported.reference_labels
          /\ Exported.reference_labels[Anchor(i)[1]] = doc[i].num
          /\ Anchor(i)[1] \in Exported.targets

(***************************************************************************)
(* colorize_doctestblock                                                   *)
(*                                                                         *)
(* The blocks drawn contain no quote character, so the STRING alternative  *)
(* of DOCTEST_RE cannot match and is left out of the tokenizer.            *)
(***************************************************************************)
MaxLines == 3       \* lines of the blocks drawn line by line from LinePool

KEYWORDS ==
    {<<"a","n","d">>, <<"d","e","l">>, <<"f","o","r">>,
     <<"i","s">>, <<"r","a","i","s","e">>, <<"a","s","s","e","r","t">>,
     <<"e","l","i","f">>, <<"f","r","o","m">>, <<"l","a","m","b","d","a">>,
     <<"r","e","t","u","r","n">>, <<"b","r","e","a","k">>, <<"e","l","s","e">>,
     <<"g","l","o","b","a","l">>, <<"n","o","t">>, <<"t","r","y">>,
     <<"c","l","a","s","s">>, <<"e","x","c","e","p","t">>, <<"i","f">>,
     <<"o","r">>, <<"w","h","i","l","e">>, <<"c","o","n","t","i","n","u","e">>,
     <<"e","x","e","c">>, <<"i","m","p","o","r","t">>, <<"p","a","s","s">>,
     <<"y","i","e","l","d">>, <<"d","e","f">>, <<"f","i","n","a","l","l","y">>,
     <<"i","n">>, <<"p","r","i","n","t">>, <<"a","s">>}
\* dir(__builtins__), cut down to the names the blocks drawn can spell and
\* the ones the source names
BUILTINS == {<<"V","a","l","u","e","E","r","r","o","r">>, <<"N","o","n","e">>, <<"a","b","s">>, <<"d","i","r">>}

PROMPT1 == <<">",">",">">>
PROMPT2 == <<".",".",".">>
TRACEBACK == <<"T","r","a","c","e","b","a","c","k"," ","(","m","o","s","t"," ","r","e","c","e","n","t"," ","c","a","l","l"," ","l","a","s","t",")",":">>

TagText ==
    [prompt |-> <<"p","r","o","m","p","t">>, more |-> <<"m","o","r","e">>,
     keyword |-> <<"k","e","y","w","o","r","d">>, builtin |-> <<"b","u","i","l","t","i","n">>,
     comment |-> <<"c","o","m","m","e","n","t">>, except |-> <<"e","x","c","e","p","t">>,
     output |-> <<"o","u","t","p","u","t">>, other |-> <<"o","t","h","e","r">>]

\* The markup function of the docstring: '<span class="%s">%s</span>' % (tag, s)
markup_func(t, tag) ==
    <<"<","s","p","a","n"," ","c","l","a","s","s","=","\"">> \o TagText[tag] \o <<"\"",">">>
        \o t \o <<"<","/","s","p","a","n",">">>
Span(tag, t) == [tag |-> tag, text |-> t]

\* ^ under re.MULTILINE, and the end of the line that holds position p
LineStart(t, p) == p = 1 \/ t[p - 1] = "\n"
RECURSIVE LineEnd(_, _)
LineEnd(t, p) == IF p > Len(t) \/ t[p] = "\n" THEN p - 1 ELSE LineEnd(t, p + 1)
RECURSIVE SpacesFrom(_, _)
SpacesFrom(t, p) == IF p <= Len(t) /\ IsSpace(t[p]) THEN 1 + SpacesFrom(t, p + 1) ELSE 0

\* The length of the match of r'\s*>>>(?:\s|$)' (or of the same with '...')
\* that starts at p; 0 when there is none.
PromptLen(t, p, mark) ==
    LET k == p + SpacesFrom(t, p)
        e == k + Len(mark)
    IN  IF ~StartsWithAt(t, k, mark) THEN 0
        ELSE IF e <= Len(t) /\ IsSpace(t[e]) THEN e + 1 - p
        ELSE IF e = Len(t) + 1 THEN e - p
        ELSE 0
PROMPT_RE_match(line) == PromptLen(line, 1, PROMPT1) > 0 \/ PromptLen(line, 1, PROMPT2) > 0

\* EXCEPT_RE.match(t): the first group is greedy, so the second one starts
\* at the last line of t that begins with the marker.  g is its position.
EXCEPT_RE_match(t) ==
    LET at == {p \in DOMAIN t : LineStart(t, p) /\ StartsWithAt(t, p, TRACEBACK)}
    IN  IF at = {} THEN [matched |-> FALSE, g |-> 0]
        ELSE [matched |-> TRUE, g |-> CHOOSE p \in at : \A q \in at : q <= p]

\* DOCTEST_DIRECTIVE_RE.sub('', t): from '#', any whitespace and 'doctest:'
\* to the end of that line
RECURSIVE StripDirectives(_, _)
StripDirectives(t, p) ==
    IF p > Len(t) THEN <<>>
    ELSE LET k == p + 1 + SpacesFrom(t, p + 1)
         IN  IF t[p] = "#" /\ StartsWithAt(t, k, <<"d","o","c","t","e","s","t",":">>)
             THEN StripDirectives(t, LineEnd(t, k) + 1)
             ELSE <<t[p]>> \o StripDirectives(t, p + 1)

\* The word that starts at p, when p is at a word boundary (\b)
RECURSIVE WordEnd(_, _)
WordEnd(t, p) == IF p <= Len(t) /\ IsWordChar(t[p]) THEN WordEnd(t, p + 1) ELSE p - 1
WordAt(t, p) ==
    IF IsWordChar(t[p]) /\ (p = 1 \/ ~IsWordChar(t[p - 1])) THEN SubSeq(t, p, WordEnd(t, p)) ELSE <<>>

\* The alternative of DOCTEST_RE that matches at p and the length of its
\* match; the alternatives are tried in the order of the pattern.
MatchAt_OneSpan(t, p) ==
    IF t[p] = "#" THEN [group |-> "COMMENT", len |-> LineEnd(t, p) - p + 1]
    ELSE IF WordAt(t, p) \in KEYWORDS THEN [group |-> "KEYWORD", len |-> Len(WordAt(t, p))]
    ELSE IF WordAt(t, p) \in BUILTINS THEN [group |-> "BUILTIN", len |-> Len(WordAt(t, p))]
    ELSE IF LineStart(t, p) /\ PromptLen(t, p, PROMPT1) > 0
         THEN [group |-> "PROMPT1", len |-> PromptLen(t, p, PROMPT1)]
    ELSE IF LineStart(t, p) /\ PromptLen(t, p, PROMPT2) > 0
         THEN [group |-> "PROMPT2", len |-> PromptLen(t, p, PROMPT2)]
    ELSE [group |-> "OTHER", len |-> 1]
MatchAt(t, p) ==
    IF t[p] = "#" THEN [group |-> "COMMENT", len |-> LineEnd(t, p) - p + 1]
    ELSE IF WordAt(t, p) \in KEYWORDS THEN [group |-> "KEYWORD", len |-> Len(WordAt(t, p))]
    ELSE IF WordAt(t, p) \in BUILTINS THEN [group |-> "BUILTIN", len |-> Len(WordAt(t, p))]
    ELSE IF LineStart(t, p) /\ PromptLen(t, p, PROMPT1) > 0
         THEN [group |-> "PROMPT1", len |-> PromptLen(t, p, PROMPT1)]
    ELSE IF LineStart(t, p) /\ PromptLen(t, p, PROMPT2) > 0
         THEN [group |-> "PROMPT2", len |-> PromptLen(t, p, PROMPT2)]
    ELSE IF IsSpace(t[p]) THEN [group |-> "OTHER_WHITESPACE", len |-> 1]
    ELSE [group |-> "OTHER", len |-> 1]

GroupTag ==
    [PROMPT1 |-> "prompt", PROMPT2 |-> "more", KEYWORD |-> "keyword",
     BUILTIN |-> "builtin", COMMENT |-> "comment"]

\* subfunc(match).  st holds the text returned so far (out), the aggregator
\* of 'other' characters (other) and the calls of markup_func (log).
subfunc(st, group, m) ==
    IF group = "OTHER" THEN [st EXCEPT !.other = @ \o m]
    ELSE LET v == IF st.other # <<>> THEN markup_func(st.other, "other") ELSE <<>>
             log == IF st.other # <<>> THEN Append(st.log, Span("other", st.other)) ELSE st.log
         IN  IF group = "OTHER_WHITESPACE"
             THEN [out |-> st.out \o v \o m, other |-> <<>>, log |-> log]
             ELSE [out |-> st.out \o v \o markup_func(m, GroupTag[group]), other |-> <<>>,
                   log |-> Append(log, Span(GroupTag[group], m))]

\* DOCTEST_RE.sub(subfunc, t), from position p on
RECURSIVE DOCTEST_RE_sub(_, _, _)
DOCTEST_RE_sub(t, p, st) ==
    IF p > Len(t) THEN st
    ELSE LET m == MatchAt(t, p)
         IN  DOCTEST_RE_sub(t, p + m.len, subfunc(st, m.group, SubSeq(t, p, p + m.len - 1)))

\* pysrc = DOCTEST_RE.sub(subfunc, t); if other: pysrc += markup_func(other).
\* The aggregator is read, and left as it is: it is emptied by subfunc only.
Tokenized(t, oth) ==
    LET st == DOCTEST_RE_sub(t, 1, [out |-> <<>>, other |-> oth, log |-> <<>>])
    IN  IF st.other # <<>>
        THEN [out |-> st.out \o markup_func(st.other, "other"), other |-> st.other,
              log |-> Append(st.log, Span("other", st.other))]
        ELSE st

ColorizerOnly == UNCHANGED <<envVars, numVars, reference_labels, refVars, pipeVars, bibVars, idxVars>>

\* inline mode: the whole text is tokenized at once
colorize_inline ==
    /\ pc = "loop" /\ inline
    /\ LET r == Tokenized(StripDirectives(s, 1), other)
       IN  /\ result' = <<Strip(r.out)>>
           /\ other' = r.other
           /\ emitted' = emitted \o r.log
    /\ pc' = "done"
    /\ UNCHANGED <<s, inline, lines, lineno, pysrc, pyout>>
    /\ ColorizerOnly

\* The spans of a finished run of output lines
OutputSpans(lns) ==
    LET text == RStrip(Join(lns, <<"\n">>))
        m == EXCEPT_RE_match(text)
        out == Strip(SubSeq(text, 1, m.g - 1))
        exc == Strip(SubSeq(text, m.g, Len(text)))
    IN  IF m.matched
        THEN (IF out # <<>> THEN <<Span("output", out)>> ELSE <<>>) \o <<Span("except", exc)>>
        ELSE <<Span("output", text)>>
Marked(spans) == [i \in DOMAIN spans |-> markup_func(spans[i].text, spans[i].tag)]

\* One turn of the loop, on a line that starts with a prompt
colorize_prompt_line ==
    /\ pc = "loop" /\ ~inline /\ lineno <= Len(lines)
    /\ PROMPT_RE_match(lines[lineno])
    /\ pysrc' = Append(pysrc, lines[lineno])
    /\ IF pyout # <<>>
       THEN /\ result' = result \o Marked(OutputSpans(pyout))
            /\ emitted' = emitted \o OutputSpans(pyout)
            /\ pyout' = <<>>
       ELSE UNCHANGED <<result, emitted, pyout>>
    /\ lineno' = lineno + 1
    /\ UNCHANGED <<s, inline, lines, other, pc>>
    /\ ColorizerOnly

\* One turn of the loop, on any other line
colorize_output_line ==
    /\ pc = "loop" /\ ~inline /\ lineno <= Len(lines)
    /\ ~PROMPT_RE_match(lines[lineno])
    /\ pyout' = Append(pyout, lines[lineno])
    /\ IF pysrc # <<>>
       THEN LET r == Tokenized(Join(pysrc, <<"\n">>), other)
            IN  /\ result' = Append(result, Strip(r.out))
                /\ emitted' = emitted \o r.log
                /\ other' = r.other
                /\ pysrc' = <<>>
       ELSE UNCHANGED <<result, emitted, other, pysrc>>
    /\ lineno' = lineno + 1
    /\ UNCHANGED <<s, inline, lines, pc>>
    /\ ColorizerOnly

\* After the loop: what is left of the output, and the return
colorize_remainder ==
    /\ pc = "loop" /\ ~inline /\ lineno > Len(lines)
    /\ LET remainder == RStrip(Join(pyout, <<"\n">>))
       IN  IF remainder # <<>>
           THEN /\ result' = Append(result, markup_func(remainder, "output"))
                /\ emitted' = Append(emitted, Span("output", remainder))
           ELSE UNCHANGED <<result, emitted>>
    /\ pc' = "done"
    /\ UNCHANGED <<s, inline, lines, lineno, pysrc, pyout, other>>
    /\ ColorizerOnly

\* The value returned
Returned == Join(result, <<"\n">>)

LinePool ==
    {<<">",">",">"," ","r","a","i","s","e"," ","V","a","l","u","e","E","r","r","o","r","(",")">>,
     TRACEBACK,
     <<".",".",".">>,
     <<"V","a","l","u","e","E","r","r","o","r">>,
     <<">",">",">"," ","x"," ","="," ","1">>,
     <<"1">>,
     <<">",">",">"," ","1"," ","#"," ","a"," ","#"," ","d","o","c","t","e","s","t",":"," ","b">>,
     <<>>}

\* A session whose exception trace holds a line of three dots
TraceBlock ==
    Join(<< <<">",">",">"," ","r","a","i","s","e"," ","V","a","l","u","e","E","r","r","o","r","(",")">>,
            TRACEBACK, <<".",".",".">>, <<"V","a","l","u","e","E","r","r","o","r">> >>, <<"\n">>)
BlockPool ==
    {Join(ls, <<"\n">>) : ls \in UNION {[1..n -> LinePool] : n \in 1..MaxLines}} \cup {TraceBlock}

ColInit ==
    /\ OUTPUT_FORMAT = "html"
    /\ s \in BlockPool
    /\ inline \in BOOLEAN
    /\ lines = IF inline THEN <<>> ELSE SplitOn(StripDirectives(s, 1), "\n") \o << <<"\n">> >>
    /\ lineno = 1
    /\ pysrc = <<>> /\ pyout = <<>> /\ other = <<>> /\ result = <<>> /\ emitted = <<>>
    /\ pc = "loop"
    /\ NumIdle /\ reference_labels = [x \in {} |-> <<>>] /\ RefIdle /\ PipeIdle /\ EnvIdle
    /\ BibIdle /\ IdxIdle
ColNext ==
    \/ colorize_inline
    \/ colorize_prompt_line
    \/ colorize_output_line
    \/ colorize_remainder
ColSpec == ColInit /\ [][ColNext]_vars

(***************************************************************************)
(* Claims about the colorizer                                              *)
(***************************************************************************)
Finished(block) == pc = "done" /\ ~inline /\ s = block
Tagged(tag) == {i \in DOMAIN emitted : emitted[i].tag = tag}
SessionBlock == Join(<< <<">",">",">"," ","x"," ","="," ","1">>, <<"1">> >>, <<"\n">>)

\* C7 as stated: for the session whose exception trace holds a line of three
\* dots, the colorizer emits no output span and exactly one exception-trace
\* span, and that span runs from the Traceback line to the end of the block.
C7_OneTraceSpan ==
    Finished(TraceBlock) =>
        /\ Tagged("output") = {}
        /\ Cardinality(Tagged("except")) = 1
        /\ \A i \in Tagged("except") :
              emitted[i].text = Join(<<TRACEBACK, <<".",".",".">>, <<"V","a","l","u","e","E","r","r","o","r">> >>, <<"\n">>)

\* C8 as stated: for the block '>>> x = 1' / '1' the colorizer emits three
\* spans: the prompt '>>> ', one plain span 'x = 1', and the output '1'.
C8_OneSpan ==
    Finished(SessionBlock) =>
        emitted = <<Span("prompt", <<">",">",">"," ">>),
                    Span("other", <<"x"," ","="," ","1">>),
                    Span("output", <<"1">>)>>

\* C8 amended: for the block '>>> x = 1' / '1' the colorizer emits five
\* spans: the prompt '>>> ', one plain span for each of 'x', '=' and '1' (the
\* whitespace between them ends a plain span and is left unmarked), and the
\* output '1'.
C8_SpanPerWord ==
    Finished(SessionBlock) =>
        /\ emitted = <<Span("prompt", <<">",">",">"," ">>),
                       Span("other", <<"x">>), Span("other", <<"=">>), Span("other", <<"1">>),
                       Span("output", <<"1">>)>>
        /\ Returned = markup_func(<<">",">",">"," ">>, "prompt")
                        \o markup_func(<<"x">>, "other") \o <<" ">>
                        \o markup_func(<<"=">>, "other") \o <<" ">>
                        \o markup_func(<<"1">>, "other") \o <<"\n">>
                        \o markup_func(<<"1">>, "output")

C8_Witness == Finished(SessionBlock) /\ Len(emitted) = 5 /\ Len(result) = 2

\* A run of output lines is emitted: by the prompt line that follows it, or
\* after the loop.
OutputRunEmitted == pyout # <<>> /\ (pyout' = <<>> \/ pc' = "done")
TraceLines(run) == {i \in DOMAIN run : StartsWithAt(run[i], 1, TRACEBACK)}
FromLine(run, i) == RStrip(Join(SubSeq(run, i, Len(run)), <<"\n">>))

\* C17 as stated: when a run of output lines holds a line that begins with
\* the Traceback marker, the text from a marker line to the end of the run is
\* emitted as an exception-trace span, whether the run is ended by a prompt
\* line or by the end of the input.
C17_TraceSpanAtEitherEnd ==
    [][(OutputRunEmitted /\ TraceLines(pyout) # {}) =>
          /\ Len(emitted') > Len(emitted)
          /\ emitted'[Len(emitted')].tag = "except"
          /\ \E i \in TraceLines(pyout) : emitted'[Len(emitted')].text = FromLine(pyout, i)]_vars

\* The text of the spans emitted, one after the other, and a text without
\* its whitespace.
RECURSIVE SpanTexts(_)
SpanTexts(spans) == IF spans = <<>> THEN <<>> ELSE spans[1].text \o SpanTexts(Tail(spans))
NonSpace(t) == SelectSeq(t, LAMBDA c : ~IsSpace(c))

\* C24 as stated: in block mode, for a block that holds no doctest directive
\* (so that stripping changes nothing), the text handed to the emit function
\* is the input up to whitespace: every non-whitespace character of the
\* block is emitted exactly once, in input order.
C24_TextPreserved ==
    (pc = "done" /\ ~inline /\ StripDirectives(s, 1) = s) =>
        NonSpace(SpanTexts(emitted)) = NonSpace(s)

\* C25 as stated: in block mode the emit function is never called with an
\* empty text.
C25_NoEmptySpan ==
    ~inline => \A i \in DOMAIN emitted : emitted[i].text # <<>>

(***************************************************************************)
(* The transform schedule                                                  *)
(*                                                                         *)
(* The reader hands its transforms to the docutils Transformer, which      *)
(* applies the registered transforms in ascending priority, and in the     *)
(* order of registration among equal priorities.  An index directive       *)
(* registers a pending ConstructIndex while the document is parsed.        *)
(***************************************************************************)
MaxIndexes == 1     \* index directives in one document

TRANSFORMS ==
    <<"Citations", "NumberNodes", "SaveIndexTerms", "NumberReferences",
      "ResolveExternalCrossrefs", "UnindentDoctests">>
default_priority ==
    [Citations |-> 500, NumberNodes |-> 800, SaveIndexTerms |-> 810, ConstructIndex |-> 820,
     NumberReferences |-> 830, ResolveExternalCrossrefs |-> 849, UnindentDoctests |-> 1000]
Registered(cls) == [cls |-> cls, priority |-> default_priority[cls]]

\* The document is still being parsed: the reader's transforms are not
\* registered yet.
Parsing == applied = <<>> /\ \A i \in DOMAIN transforms : transforms[i].cls = "ConstructIndex"

\* The transform that is applied next: by position in the list
NextIndex_Registration ==
    CHOOSE i \in DOMAIN transforms : \A j \in DOMAIN transforms : i <= j
NextIndex ==
    CHOOSE i \in DOMAIN transforms : \A j \in DOMAIN transforms :
        \/ transforms[i].priority < transforms[j].priority
        \/ transforms[i].priority = transforms[j].priority /\ i <= j
Scheduled(cls) == ~Parsing /\ transforms # <<>> /\ transforms[NextIndex].cls = cls
Pop ==
    /\ applied' = Append(applied, transforms[NextIndex].cls)
    /\ transforms' = SubSeq(transforms, 1, NextIndex - 1) \o SubSeq(transforms, NextIndex + 1, Len(transforms))

index_directive ==
    /\ Parsing /\ Len(transforms) < MaxIndexes
    /\ transforms' = Append(transforms, Registered("ConstructIndex"))
    /\ UNCHANGED <<applied, envVars, numVars, reference_labels, refVars, colVars, bibVars, idxVars>>

get_transforms ==
    /\ Parsing
    /\ transforms' = transforms \o [i \in DOMAIN TRANSFORMS |-> Registered(TRANSFORMS[i])]
    /\ UNCHANGED <<applied, envVars, numVars, reference_labels, refVars, colVars, bibVars, idxVars>>

\* The transforms whose work is on parts of the tree that are not drawn here
apply_Citations ==
    /\ Scheduled("Citations") /\ Pop
    /\ UNCHANGED <<envVars, numVars, reference_labels, refVars, colVars, bibVars, idxVars>>
apply_ConstructIndex ==
    /\ Scheduled("ConstructIndex") /\ Pop
    /\ UNCHANGED <<envVars, numVars, reference_labels, refVars, colVars, bibVars, idxVars>>
apply_UnindentDoctests ==
    /\ Scheduled("UnindentDoctests") /\ Pop
    /\ UNCHANGED <<envVars, numVars, reference_labels, refVars, colVars, bibVars, idxVars>>

\* NumberNodes.apply(): the label table of the numbering visitor becomes the
\* document's
apply_NumberNodes ==
    /\ Scheduled("NumberNodes") /\ Pop
    /\ reference_labels' \in LabelPool
    /\ UNCHANGED <<envVars, numVars, refVars, colVars, bibVars, idxVars>>

\* SaveIndexTerms.apply(): in a 'ref' run, the terms (the documents drawn
\* hold none) are written to this document's .ref file
apply_SaveIndexTerms ==
    /\ Scheduled("SaveIndexTerms") /\ Pop
    /\ shelf' = IF OUTPUT_FORMAT = "ref"
                THEN LET name == RefFile(OUTPUT_BASENAME)
                         old == IF name \in DOMAIN shelf THEN shelf[name] ELSE [x \in {} |-> Nil]
                         new == [terms |-> [x \in {} |-> Nil]]
                     IN  [f \in DOMAIN shelf \cup {name} |->
                            IF f = name THEN new @@ old ELSE shelf[f]]
                ELSE shelf
    /\ UNCHANGED <<OUTPUT_FORMAT, EXTERN_REFERENCE_FILES, numVars, reference_labels, refVars, colVars, bibVars, idxVars>>

apply_NumberReferences ==
    /\ Scheduled("NumberReferences") /\ Pop
    /\ NumberReferences_run
    /\ UNCHANGED <<numVars, colVars, bibVars, idxVars>>
apply_ResolveExternalCrossrefs ==
    /\ Scheduled("ResolveExternalCrossrefs") /\ Pop
    /\ ResolveExternalCrossrefs_run
    /\ UNCHANGED <<numVars, colVars, bibVars, idxVars>>

PipeInit ==
    /\ OUTPUT_FORMAT \in {"html", "ref"}
    /\ \E e \in ExternPool : EXTERN_REFERENCE_FILES = e.files /\ shelf = e.disk
    /\ reference_labels = [x \in {} |-> Nil]
    /\ \E n \in 1..MaxChildren : children \in [1..n -> NodePool]
    /\ in_contents = FALSE
    /\ passes = <<>>
    /\ transforms = <<>> /\ applied = <<>>
    /\ NumIdle /\ ColIdle /\ BibIdle /\ IdxIdle
PipeNext ==
    \/ index_directive
    \/ get_transforms
    \/ apply_Citations
    \/ apply_NumberNodes
    \/ apply_SaveIndexTerms
    \/ apply_ConstructIndex
    \/ apply_NumberReferences
    \/ apply_ResolveExternalCrossrefs
    \/ apply_UnindentDoctests
PipeSpec == PipeInit /\ [][PipeNext]_vars

(***************************************************************************)
(* Claims about the transform schedule                                     *)
(***************************************************************************)
\* Pass a has run whenever pass b has: a comes before every b.
Precedes(a, b) ==
    \A j \in DOMAIN applied : applied[j] = b => \E i \in 1..(j - 1) : applied[i] = a
ReferencePasses == {"NumberReferences", "ResolveExternalCrossrefs"}
IndexPasses == {"SaveIndexTerms", "ConstructIndex"}
InOrder ==
    \A i, j \in DOMAIN applied :
        i < j => \/ default_priority[applied[i]] < default_priority[applied[j]]
                 \/ applied[i] = applied[j] /\ applied[i] = "ConstructIndex"
Complete == ~Parsing /\ transforms = <<>>

\* C10 as stated: the numbering pass runs before the reference, index and
\* citation passes, and all of those run before the doctest cleanup.
C10_NumberingFirst ==
    /\ \A b \in ReferencePasses \cup IndexPasses \cup {"Citations"} : Precedes("NumberNodes", b)
    /\ Complete =>
          \A a \in ReferencePasses \cup IndexPasses \cup {"Citations"} :
              \A i, j \in DOMAIN applied :
                  (applied[i] = a /\ applied[j] = "UnindentDoctests") => i < j

\* C10 amended: the passes run one after the other in ascending priority.
\* The citation pass runs first, before the numbering pass; the numbering
\* pass runs before the index passes and the reference passes; the local
\* reference pass runs before the cross-file pass; and the doctest cleanup
\* runs last, once each of the reader's passes has run exactly once.
C10_CitationsFirst ==
    /\ InOrder
    /\ Precedes("Citations", "NumberNodes")
    /\ \A b \in ReferencePasses \cup IndexPasses : Precedes("NumberNodes", b)
    /\ Precedes("NumberReferences", "ResolveExternalCrossrefs")
    /\ \A a \in Range(TRANSFORMS) \ {"UnindentDoctests"} : Precedes(a, "UnindentDoctests")
    /\ Complete =>
          /\ applied[Len(applied)] = "UnindentDoctests"
          /\ \A a \in Range(TRANSFORMS) : Cardinality({i \in DOMAIN applied : applied[i] = a}) = 1

C10_Witness ==
    /\ Complete
    /\ applied = <<"Citations", "NumberNodes", "SaveIndexTerms", "ConstructIndex",
                   "NumberReferences", "ResolveExternalCrossrefs", "UnindentDoctests">>

\* C14 as stated: in a reference-export run the document's record is
\* written in one complete write; whenever it exists in the store it holds
\* all three of reference_labels, targets and terms.
C14_WrittenWhole ==
    RefFile(OUTPUT_BASENAME) \in DOMAIN shelf =>
        DOMAIN shelf[RefFile(OUTPUT_BASENAME)] = {"reference_labels", "targets", "terms"}

(***************************************************************************)
(* main() and the Citations transform.                                     *)
(***************************************************************************)
MaxCites == 3

BIBLIOGRAPHY_HTML == <<"b","i","b","l","i","o","g","r","a","p","h","y",".","h","t","m","l">>

\* A citation reference as the parser leaves it, and the two nodes citeref
\* builds.  Every node carries the same fields; the unused ones are Nil.
citation_reference(refname) ==
    [kind |-> "citation_reference", refname |-> refname, text |-> Nil, refuri |-> Nil,
     format |-> None]
raw_latex(text) ==
    [kind |-> "raw", refname |-> Nil, text |-> text, refuri |-> Nil, format |-> "latex"]
reference_to(text, refuri) ==
    [kind |-> "reference", refname |-> Nil, text |-> text, refuri |-> refuri, format |-> None]

\* citeref reads the module global LOCAL_BIBLIOGRAPHY.
citeref(cite, key) ==
    IF LOCAL_BIBLIOGRAPHY
    THEN raw_latex(<<"\\","c","i","t","e","{">> \o key \o <<"}">>)
    ELSE reference_to(cite, BIBLIOGRAPHY_HTML \o <<"#">> \o key)

\* dict.get: None (Nil) for a key the bibliography does not hold.
bibliography_get_Default(b, k) == IF k \in DOMAIN b THEN b[k] ELSE <<"[","N","o","n","e",","," ","N","o","n","e","]">>
bibliography_get(b, k) == IF k \in DOMAIN b THEN b[k] ELSE Nil

\* The part of main() that reads the bibliography option.  main declares
\* OUTPUT_FORMAT, OUTPUT_BASENAME and EXTERN_REFERENCE_FILES global, and
\* nothing else: its assignment to LOCAL_BIBLIOGRAPHY binds a name of its own.
main ==
    /\ cite_pc = "start"
    /\ main_LOCAL_BIBLIOGRAPHY' = (IF options_bibliography THEN TRUE ELSE main_LOCAL_BIBLIOGRAPHY)
    /\ cite_pc' = "main"
    /\ UNCHANGED <<options_bibliography, LOCAL_BIBLIOGRAPHY, bibliography, citation_refs,
                   cite_tree>>
    /\ UNCHANGED <<envVars, numVars, reference_labels, refVars, colVars, pipeVars, idxVars>>

\* Citations.apply: every citation reference whose lowercased refname the
\* bibliography holds is replaced in the tree and taken off its list.
Found(node) ==
    /\ node.kind = "citation_reference"
    /\ bibliography_get(bibliography, Lower(node.refname)) # Nil
Citations_apply ==
    /\ cite_pc = "main"
    /\ cite_tree' = [i \in DOMAIN cite_tree |->
                        IF Found(cite_tree[i])
                        THEN citeref(bibliography_get(bibliography, Lower(cite_tree[i].refname)),
                                     cite_tree[i].refname)
                        ELSE cite_tree[i]]
    /\ citation_refs' = [k \in DOMAIN citation_refs |->
                            SelectSeq(citation_refs[k], LAMBDA i : ~Found(cite_tree[i]))]
    /\ cite_pc' = "done"
    /\ UNCHANGED <<options_bibliography, main_LOCAL_BIBLIOGRAPHY, LOCAL_BIBLIOGRAPHY,
                   bibliography>>
    /\ UNCHANGED <<envVars, numVars, reference_labels, refVars, colVars, pipeVars, idxVars>>

\* The inputs: a bibliography file read by read_bibinfo (lowercased keys,
\* '[authors, year]' texts) and the citation references of a document, whose
\* refnames the parser has normalised to lower case.
Key_a04 == <<"a","0","4">>
Key_b05 == <<"b","0","5">>
Key_c06 == <<"c","0","6">>
RefnamePool == {Key_a04, Key_b05, Key_c06}
BibPool ==
    { [x \in {} |-> Nil],
      (Key_a04 :> <<"[","B","i","r","d",","," ","2","0","0","4","]">>),
      (Key_a04 :> <<"[","B","i","r","d",","," ","2","0","0","4","]">>) @@ (Key_b05 :> <<"[","K","l","e","i","n",","," ","2","0","0","5","]">>) }

\* document.note_citation_ref: each reference is appended to the list of
\* its refname.
PositionsOf(tree, k) ==
    SelectSeq([i \in 1..Len(tree) |-> i], LAMBDA i : tree[i].refname = k)
NotedCitationRefs(tree) ==
    [k \in {tree[i].refname : i \in DOMAIN tree} |-> PositionsOf(tree, k)]

CiteInit ==
    /\ OUTPUT_FORMAT = "html"
    /\ NumberingInit /\ RefIdle /\ ColIdle /\ PipeIdle /\ EnvIdle /\ IdxIdle
    /\ options_bibliography \in BOOLEAN
    /\ main_LOCAL_BIBLIOGRAPHY = FALSE
    /\ LOCAL_BIBLIOGRAPHY = FALSE
    /\ bibliography \in BibPool
    /\ \E n \in 0..MaxCites : \E names \in [1..n -> RefnamePool] :
          cite_tree = [i \in 1..n |-> citation_reference(names[i])]
    /\ citation_refs = NotedCitationRefs(cite_tree)
    /\ cite_pc = "start"
CiteNext ==
    \/ main
    \/ Citations_apply
CiteSpec == CiteInit /\ [][CiteNext]_vars

(***************************************************************************)
(* Claims about the citation pass.                                         *)
(***************************************************************************)
CitationReferences == {i \in DOMAIN cite_tree : cite_tree[i].kind = "citation_reference"}
Listed == UNION {Range(citation_refs[k]) : k \in DOMAIN citation_refs}
InBibliography(refname) == Lower(refname) \in DOMAIN bibliography
CitationPass == cite_pc = "main" /\ cite_pc' = "done"

\* C12 as stated: after the citation pass no citation reference remains,
\* neither in the tree nor in the document's citation-reference list, also
\* when its key has no entry in the bibliography.
C12_AllReplaced ==
    cite_pc = "done" => CitationReferences = {} /\ Listed = {}

\* C12 amended: the citation pass replaces (by a raw citation command or by
\* a hyperlink) exactly the citation references whose lowercased key has an
\* entry in the bibliography, and takes exactly those off the document's
\* citation-reference list; a citation reference whose key has no entry is
\* left as it is, in the tree and in the list.
C12_FoundReplaced ==
    [][CitationPass =>
          \A i \in DOMAIN cite_tree :
              IF InBibliography(cite_tree[i].refname)
              THEN /\ cite_tree'[i].kind \in {"raw", "reference"}
                   /\ \A k \in DOMAIN citation_refs' : i \notin Range(citation_refs'[k])
              ELSE /\ cite_tree'[i] = cite_tree[i]
                   /\ i \in Range(citation_refs'[cite_tree[i].refname])]_vars

C12_Witness ==
    /\ cite_pc = "done"
    /\ Len(cite_tree) = 3
    /\ cite_tree[1].kind = "reference"
    /\ cite_tree[2] = citation_reference(Key_c06)
    /\ cite_tree[3] = citation_reference(Key_c06)
    /\ citation_refs[Key_a04] = <<>>
    /\ citation_refs[Key_c06] = <<2, 3>>

\* C13 as stated: with the bibliography option given to main, a citation
\* reference found in the bibliography becomes the raw citation command for
\* its key; without it, a hyperlink to 'bibliography.html#<key>'.
C13_OptionSelectsMarkup ==
    [][CitationPass =>
          \A i \in DOMAIN cite_tree :
              InBibliography(cite_tree[i].refname) =>
                  cite_tree'[i] =
                      IF options_bibliography
                      THEN raw_latex(<<"\\", "c", "i", "t", "e", "{">> \o cite_tree[i].refname \o <<"}">>)
                      ELSE reference_to(bibliography[Lower(cite_tree[i].refname)],
                                        BIBLIOGRAPHY_HTML \o <<"#">> \o cite_tree[i].refname)]_vars

(***************************************************************************)
(* FindTermVisitor: the index terms of a document and their keys.          *)
(***************************************************************************)
MaxTerms == 3

\* re.sub('\W', '_', text.lower())
Normalized(text) ==
    [i \in DOMAIN text |-> IF IsWordChar(LowerChar(text[i])) THEN LowerChar(text[i]) ELSE "_"]

\* '%s_%d' % (key, n)
Numbered(key, n) == key \o <<"_">> \o Str(n)

\* the while loop of idxterm_key: the first n, from 2 on, whose key is free
RECURSIVE FirstFree(_, _, _)
FirstFree(table, key, n) ==
    IF Numbered(key, n) \in DOMAIN table THEN FirstFree(table, key, n + 1) ELSE n

BaseKey_Bare(text) == Normalized(text)
BaseKey(text) == Normalized(text) \o <<"_","i","n","d","e","x","_","t","e","r","m">>

idxterm_key(table, text) ==
    LET key == BaseKey(text)
    IN  IF key \notin DOMAIN table THEN key ELSE Numbered(key, FirstFree(table, key, 2))

\* visit_idxterm: the node is given its key as name and id; the entry is
\* then recorded under that key with the label of the enclosing section.
\* container is "root" for a term with no enclosing section (container_section
\* returns None, and None.get raises), otherwise the section's 'sectnum'
\* attribute, Nil when the section has none.
visit_idxterm(text, container) ==
    /\ idx_pc = "walking"
    /\ Len(idxterms) < MaxTerms
    /\ LET key == idxterm_key(terms, text)
       IN  /\ idxterms' = Append(idxterms, [text |-> text, name |-> key, id |-> key,
                                            container |-> container])
           /\ IF container = <<"root">>
              THEN idx_pc' = "AttributeError" /\ terms' = terms
              ELSE /\ idx_pc' = idx_pc
                   /\ terms' = [k \in DOMAIN terms \cup {key} |->
                                   IF k = key
                                   THEN [entrytext |-> text, name |-> key, sectnum |-> container]
                                   ELSE terms[k]]
    /\ index' = index
    /\ UNCHANGED <<envVars, numVars, reference_labels, refVars, colVars, pipeVars, bibVars>>

\* sorted(terms.keys()): strings compare character by character, by code.
\* The keys hold digits, '_' and lower-case letters only.
CODES == DIGITS \o <<"_">> \o LETTERS
Code(c) == IndexIn(CODES, c)
RECURSIVE KeyLess(_, _)
KeyLess(a, b) ==
    IF Len(a) = 0 THEN Len(b) > 0
    ELSE IF Len(b) = 0 THEN FALSE
    ELSE IF a[1] # b[1] THEN Code(a[1]) < Code(b[1])
    ELSE KeyLess(Tail(a), Tail(b))
RECURSIVE Sorted(_)
Sorted(keys) ==
    IF keys = {} THEN <<>>
    ELSE LET least == CHOOSE k \in keys : \A k2 \in keys \ {k} : KeyLess(k, k2)
         IN  <<least>> \o Sorted(keys \ {least})

\* ConstructIndex.entry: a link to refid=name whose text is the entry text,
\* followed by ' (<sectnum>)' when the term has a section label
entry(term_info) ==
    [refid |-> term_info.name,
     text |-> IF term_info.sectnum # Nil
              THEN term_info.entrytext \o <<" ","(">> \o term_info.sectnum \o <<")">>
              ELSE term_info.entrytext]

\* ConstructIndex.build_index: the keys in sorted order; a key whose first
\* character differs from the one before opens a new heading item
RECURSIVE BuildIndex(_, _, _, _)
BuildIndex(table, keys, start_letter, top) ==
    IF keys = <<>> THEN top
    ELSE LET key == keys[1]
             opened == IF SubSeq(key, 1, 1) # start_letter
                       THEN Append(top, [heading |-> Upper(SubSeq(key, 1, 1)) \o <<"\n">>,
                                         entries |-> <<>>])
                       ELSE top
             filled == [opened EXCEPT ![Len(opened)].entries = Append(@, entry(table[key]))]
         IN  BuildIndex(table, Tail(keys), SubSeq(key, 1, 1), filled)
build_index_Unsorted(table) ==
    BuildIndex(table, Sorted({k \in DOMAIN table : k[1] # "f"}) \o Sorted({k \in DOMAIN table : k[1] = "f"}), Nil, <<>>)
build_index(table) == BuildIndex(table, Sorted(DOMAIN table), Nil, <<>>)

\* terms.update(d['terms']): an external entry replaces a local one that has
\* the same key
RECURSIVE UpdateFrom(_, _, _)
UpdateFrom(table, files, disk) ==
    IF files = <<>> THEN table
    ELSE LET d == disk[RefFile(SplitExt(files[1]))].terms
         IN  UpdateFrom([k \in DOMAIN table \cup DOMAIN d |-> IF k \in DOMAIN d THEN d[k] ELSE table[k]],
                        Tail(files), disk)

\* ConstructIndex.apply, once the terms of the document are collected: the
\* external records are opened one after the other (shelve.open raises for a
\* file that does not exist), their terms are merged in, and the index is
\* built from the combined table.
ConstructIndex_apply ==
    /\ idx_pc = "walking"
    /\ IF \E i \in DOMAIN EXTERN_REFERENCE_FILES :
             RefFile(SplitExt(EXTERN_REFERENCE_FILES[i])) \notin DOMAIN shelf
       THEN /\ idx_pc' = "IOError"
            /\ terms' = LET first == CHOOSE i \in DOMAIN EXTERN_REFERENCE_FILES :
                                        /\ RefFile(SplitExt(EXTERN_REFERENCE_FILES[i])) \notin DOMAIN shelf
                                        /\ \A j \in 1..(i - 1) :
                                              RefFile(SplitExt(EXTERN_REFERENCE_FILES[j])) \in DOMAIN shelf
                         IN  UpdateFrom(terms, SubSeq(EXTERN_REFERENCE_FILES, 1, first - 1), shelf)
            /\ index' = index
       ELSE /\ idx_pc' = "done"
            /\ terms' = UpdateFrom(terms, EXTERN_REFERENCE_FILES, shelf)
            /\ index' = build_index(terms')
    /\ idxterms' = idxterms
    /\ UNCHANGED <<envVars, numVars, reference_labels, refVars, colVars, pipeVars, bibVars>>

\* The external records drawn for the index: ch2.ref holds two terms, one of
\* them with the key that 'foo' has in this document.
Key_foo == <<"f","o","o","_","i","n","d","e","x","_","t","e","r","m">>
Key_zip == <<"z","i","p","_","i","n","d","e","x","_","t","e","r","m">>
Terms_ch2 ==
    (Key_foo :> [entrytext |-> <<"f","o","o">>, name |-> Key_foo, sectnum |-> <<"7",".","1">>])
      @@ (Key_zip :> [entrytext |-> <<"z","i","p">>, name |-> Key_zip, sectnum |-> Nil])
IndexExternPool ==
    { [files |-> <<>>, disk |-> [x \in {} |-> Nil]],
      [files |-> <<File_ch2>>,
       disk |-> (File_ch2 :> [reference_labels |-> Record_ch2.reference_labels,
                              targets |-> Record_ch2.targets, terms |-> Terms_ch2])],
      [files |-> <<File_ch2>>, disk |-> [x \in {} |-> Nil]] }

TermTextPool == { <<"f","o","o">>, <<"F","o","o">>, <<"a"," ","b">>, <<"a","-","b">>, <<"f","o","o"," ","2">> }
ContainerPool == { <<"root">>, Nil, <<"1",".","2">> }

IdxInit ==
    /\ OUTPUT_FORMAT = "html"
    /\ \E e \in IndexExternPool : EXTERN_REFERENCE_FILES = e.files /\ shelf = e.disk
    /\ NumberingInit /\ RefIdle /\ ColIdle /\ PipeIdle /\ BibIdle
    /\ terms = [x \in {} |-> Nil]
    /\ idxterms = <<>>
    /\ idx_pc = "walking"
    /\ index = <<>>
IdxNext ==
    \/ \E text \in TermTextPool, container \in ContainerPool : visit_idxterm(text, container)
    \/ ConstructIndex_apply
IdxSpec == IdxInit /\ [][IdxNext]_vars

(***************************************************************************)
(* Claims about the index terms.                                           *)
(***************************************************************************)
\* How many terms up to the i-th, in document order, normalise as it does.
TermRank(i) ==
    Cardinality({j \in 1..i : Normalized(idxterms[j].text) = Normalized(idxterms[i].text)})
KeyFrom(base, rank) == IF rank = 1 THEN base ELSE Numbered(base, rank)
DistinctKeys ==
    \A i, j \in DOMAIN idxterms : i # j => idxterms[i].name # idxterms[j].name

\* C15 as stated: the first term normalising to a base key gets the base key
\* itself, the n-th gets base_n, the base key being the normalised text (two
\* terms normalising to 'foo' get 'foo' and 'foo_2'); no two terms share a key.
C15_BareKeys ==
    /\ \A i \in DOMAIN idxterms :
          idxterms[i].name = KeyFrom(Normalized(idxterms[i].text), TermRank(i))
    /\ DistinctKeys

\* C15 amended: the base key of a term is its normalised text followed by
\* '_index_term'.  In document order the first term with a base key gets
\* the base key unchanged, the second base_2, the third base_3, and so on:
\* two terms normalising to 'foo' get 'foo_index_term' and
\* 'foo_index_term_2'.  No two terms of one document share a key.
C15_SuffixedKeys ==
    /\ \A i \in DOMAIN idxterms :
          idxterms[i].name = KeyFrom(Normalized(idxterms[i].text) \o <<"_","i","n","d","e","x","_","t","e","r","m">>,
                                     TermRank(i))
    /\ DistinctKeys

C15_Witness ==
    /\ Len(idxterms) = 3
    /\ idxterms[1].text = <<"F","o","o">> /\ idxterms[1].name = <<"f","o","o","_","i","n","d","e","x","_","t","e","r","m">>
    /\ idxterms[2].text = <<"f","o","o">> /\ idxterms[2].name = <<"f","o","o","_","i","n","d","e","x","_","t","e","r","m","_","2">>
    /\ idxterms[3].text = <<"f","o","o">> /\ idxterms[3].name = <<"f","o","o","_","i","n","d","e","x","_","t","e","r","m","_","3">>
    /\ DOMAIN terms = {idxterms[i].name : i \in 1..3}

\* C22 as stated: a term with no enclosing section is collected like any
\* other: its entry is recorded, with no section label, and the traversal
\* goes on.
C22_RootlessCollected ==
    \A i \in DOMAIN idxterms :
        idxterms[i].container = <<"root">> =>
            /\ idx_pc = "walking"
            /\ idxterms[i].name \in DOMAIN terms
            /\ terms[idxterms[i].name].sectnum = Nil

\* The entries of the index in the order they are listed, and the heading
\* each stands under.
RECURSIVE Flat(_)
Flat(top) == IF top = <<>> THEN <<>> ELSE top[1].entries \o Flat(Tail(top))
HeadingOf(key) == Upper(SubSeq(key, 1, 1)) \o <<"\n">>
Built == idx_pc = "done"

\* C23: the index lists one entry per key of the combined table, in
\* ascending key order; there is one heading per first character of the
\* keys, the headings ascend, and every entry stands under the heading of
\* its key's first character and links to the identifier of its term.
C23_IndexSorted ==
    Built =>
        LET flat == Flat(index)
        IN  /\ Len(flat) = Cardinality(DOMAIN terms)
            /\ {flat[i].refid : i \in DOMAIN flat} = {terms[k].name : k \in DOMAIN terms}
            /\ \A i, j \in DOMAIN flat : i < j => KeyLess(flat[i].refid, flat[j].refid)
            /\ \A h, g \in DOMAIN index : h < g => index[h].heading # index[g].heading
            /\ \A h, g \in DOMAIN index :
                  h < g => Code(index[h].entries[1].refid[1]) < Code(index[g].entries[1].refid[1])
            /\ {index[h].heading : h \in DOMAIN index} = {HeadingOf(k) : k \in DOMAIN terms}
            /\ \A h \in DOMAIN index :
                  /\ index[h].entries # <<>>
                  /\ \A i \in DOMAIN index[h].entries :
                        /\ index[h].entries[i].refid \in DOMAIN terms
                        /\ HeadingOf(index[h].entries[i].refid) = index[h].heading

\* An index with three headings: terms of this document under A and F, a
\* term of the external record under Z.
C23_Witness ==
    /\ Built
    /\ Len(index) = 3
    /\ index[1].heading = <<"A","\n">> /\ index[2].heading = <<"F","\n">>
    /\ index[3].heading = <<"Z","\n">>
    /\ Len(index[2].entries) = 2

\* The entry that visit_idxterm recorded for the i-th term of the document.
OwnEntry(i) ==
    [entrytext |-> idxterms[i].text, name |-> idxterms[i].name, sectnum |-> idxterms[i].container]

\* C27 as stated: once the index is built, every term collected from the
\* document still has its own entry in the combined table and in the index,
\* also when an external record holds a term with the same key.
C27_LocalTermsKept ==
    Built =>
        \A i \in DOMAIN idxterms :
            /\ idxterms[i].name \in DOMAIN terms
            /\ terms[idxterms[i].name] = OwnEntry(i)
            /\ \E k \in DOMAIN Flat(index) : Flat(index)[k] = entry(OwnEntry(i))

====
